---- MODULE Spec2Model ----
(***************************************************************************)
(* CodeLight: the state-consistency core of the editor.                    *)
(*                                                                         *)
(*   - main process (src/src/main.js): the privileged file broker with its *)
(*     per-window allowed folder, and the per-window folder watcher with   *)
(*     its 300 ms debounce timer;                                          *)
(*   - renderer (renderer.js, kept as src/unnamed/part_000): the tab       *)
(*     registry of CodeLightApp with its asynchronous open and save flows. *)
(*                                                                         *)
(* Strings that the code inspects (paths, watcher filenames) are sequences *)
(* of one-character strings, so that startsWith, split and resolve are     *)
(* computed and not assumed.  null is the empty sequence for a string and  *)
(* 0 for an identifier.                                                    *)
(***************************************************************************)
EXTENDS Integers, Sequences, FiniteSets, Bags, TLC

VARIABLES
    \* ---- main process ----
    allowedFolders,   \* main.js:6    senderId -> resolved folder, or Null
    reply,            \* the result of the IPC call handled last, with the I/O it did
    askPath,          \* the raw path the renderers' file requests carry
    watchers,         \* main.js:521  senderId -> {watcher, debounceTimer}, or NoWatcher
    timers,           \* the pending setTimeout callbacks, each with the ms left to run
    destroyed,        \* senderId -> the window has been destroyed
    lastSent,         \* senderId -> the folder-changed message sent last
    burst,            \* senderId -> the accepted events since the timer last was idle
    fsWatchers,       \* senderId -> the number of FSWatcher objects open for it
    closePc,          \* main.js:118 the await the close handler of the window is at
    closeTimer,       \* the ms left of the timeout the handler races, or NoTimer
    closeRun,         \* the run of the close handler: what it found and how it went
    toRenderer,       \* the channels of webContents.send not yet dispatched
    windows,          \* main.js:40  the windows that are open, in creation order
    pages,            \* window -> the query its page was loaded with, or NoPage
    \* ---- renderer (one window) ----
    tabs,             \* part_000:57  CodeLightApp.tabs, in list order
    activeTabId,      \* part_000:58  CodeLightApp.activeTabId, 0 for null
    editorModel,      \* the tab (by uid) whose model the editor shows, 0 for none
    clock,            \* Date.now() of the renderer
    nextUid,          \* the next tab object to be allocated (object identity)
    appOpenFolder,    \* part_000:62  CodeLightApp.openFolder
    openOps,          \* the openFile calls waiting for their read-file result
    saveOps,          \* the saveCurrentFile calls waiting for a dialog or a write
    saveAll,          \* the saveAllFiles call and the position of its loop
    errorLog,         \* what the renderer has reported (console.error)
    restore,          \* the restoreSession call: its position and its session
    storage,          \* part_001:509 localStorage's entry codelight_session
    \* ---- renderer: FileManager ----
    isWatching,       \* file-manager.js:11  FileManager.isWatching
    isRendering,      \* FileManager._isRendering
    pendingRefresh,   \* FileManager._pendingRefresh
    suppressFlag,     \* FileManager._suppressWatcher
    suppressTimer,    \* the ms left of the pending callbacks of suppressWatcher
    suppressAge,      \* the ms since suppressWatcher was last called, or NoTimer
    calls,            \* the FileManager calls in progress, each at an await
    ipc,              \* the requests sent to the main process and not yet handled
    expandedFolders,  \* file-manager.js:10  FileManager.expandedFolders
    container,        \* the trees in the #file-tree element, in document order
    dirs              \* the directories that exist on the disk

closeVars == <<closePc, closeTimer, closeRun, toRenderer>>

windowVars == <<windows, pages>>

mainVars == <<allowedFolders, reply, askPath, watchers, timers, destroyed,
              lastSent, burst, fsWatchers, closeVars, windowVars>>

registryVars == <<tabs, activeTabId, editorModel, clock, nextUid, appOpenFolder,
                  openOps, saveOps, saveAll, errorLog, restore>>

rendererVars == <<registryVars, storage>>

domVars == <<expandedFolders, container, dirs>>

treeVars == <<isWatching, isRendering, pendingRefresh, suppressFlag,
              suppressTimer, suppressAge, calls, ipc, domVars>>

vars == <<mainVars, rendererVars, treeVars>>

\* the time of a timer that is not set, or since an event that has not happened
NoTimer == 0 - 1

----------------------------------------------------------------------------
(* Bounds *)

\* longest raw path a request carries, in characters
MaxPathLen == 4

\* the accepted events of one burst are counted up to this number
MaxBurst == 2

----------------------------------------------------------------------------
(* Strings and paths (Node's path module, POSIX flavour) *)

Null == <<>>
Sep == "/"
PathChars == {"/", "a", "."}

\* the process's working directory, which path.resolve prefixes to relative paths
Cwd == <<"/", "a">>

Windows == {1, 2}

\* String.prototype.startsWith
StartsWith(s, p) == Len(p) <= Len(s) /\ SubSeq(s, 1, Len(p)) = p

RECURSIVE SplitAcc(_, _, _)
SplitAcc(s, cur, out) ==
    IF s = <<>>
    THEN (IF cur = <<>> THEN out ELSE Append(out, cur))
    ELSE IF Head(s) = Sep
         THEN SplitAcc(Tail(s), <<>>, IF cur = <<>> THEN out ELSE Append(out, cur))
         ELSE SplitAcc(Tail(s), Append(cur, Head(s)), out)

\* the non-empty segments of a path string
Segments(s) == SplitAcc(s, <<>>, <<>>)

RECURSIVE NormAcc(_, _)
NormAcc(segs, out) ==
    IF segs = <<>>
    THEN out
    ELSE LET h == Head(segs) IN
         IF h = <<".">>
         THEN NormAcc(Tail(segs), out)
         ELSE IF h = <<".", ".">>
              THEN NormAcc(Tail(segs),
                           IF out = <<>> THEN out ELSE SubSeq(out, 1, Len(out) - 1))
              ELSE NormAcc(Tail(segs), Append(out, h))

RECURSIVE JoinSegs(_)
JoinSegs(segs) ==
    IF segs = <<>> THEN <<>> ELSE <<Sep>> \o Head(segs) \o JoinSegs(Tail(segs))

\* path.resolve(p): absolute, "." and ".." and repeated or trailing separators
\* removed; a relative path is taken from the working directory
resolve(p) ==
    LET abs  == IF StartsWith(p, <<Sep>>) THEN p ELSE Cwd \o <<Sep>> \o p
        segs == NormAcc(Segments(abs), <<>>)
    IN  IF segs = <<>> THEN <<Sep>> ELSE JoinSegs(segs)

RECURSIVE StringsOfLen(_)
StringsOfLen(n) ==
    IF n = 0 THEN {<<>>}
    ELSE {Append(s, c) : s \in StringsOfLen(n - 1), c \in PathChars}

\* the raw paths a renderer may send
RawPaths == UNION {StringsOfLen(n) : n \in 1..MaxPathLen}

\* the folders a renderer opens (raw, as the dialog or the session gives them)
FolderInputs == {<<"/", "a">>, <<"/", "a", "/">>, <<"/", "a", "/", "a">>}

\* the folders a renderer asks to watch
WatchInputs == {<<"/", "a">>}

----------------------------------------------------------------------------
(* Privileged file broker (main.js) *)

AccessDenied == "Access denied: path outside open folder"
IoError == "io error"
NoError == "none"

\* the containment test without the separator: any path that merely begins with
\* the folder's name passes
withinAllowed_NoSep(resolved, allowed) ==
    resolved = allowed \/ StartsWith(resolved, allowed)

\* the containment test of validateFileAccess, on the resolved path
withinAllowed(resolved, allowed) ==
    resolved = allowed \/ StartsWith(resolved, allowed \o <<Sep>>)

\* validateFileAccess that allows every path
validateFileAccess_Any(senderId, filePath) == resolve(filePath)

\* validateFileAccess(senderId, filePath): the resolved path, or Null
validateFileAccess(senderId, filePath) ==
    LET resolved == resolve(filePath)
        allowed  == allowedFolders[senderId]
    IN  IF allowed = Null THEN resolved
        ELSE IF withinAllowed(resolved, allowed) THEN resolved
        ELSE Null

\* the record kept of the IPC call handled last: what the handler's promise
\* resolves to, or that it rejects (thrown)
Reply(op, w, resolved, allowed, success, error, io) ==
    [op |-> op, sender |-> w, resolved |-> resolved, allowed |-> allowed,
     success |-> success, error |-> error, io |-> io, thrown |-> FALSE,
     items |-> <<>>]

\* a path argument that is not a string, for which path.resolve throws
NotAString == <<"undefined">>
InvalidArg == "The \"paths[0]\" argument must be of type string"

\* the body of a handler throws err where it would have returned r
throw(r, err) == [r EXCEPT !.success = FALSE, !.error = err, !.thrown = TRUE]

\* a handler without the try block
tryCatch_None(r) == r

\* try { body } catch (err) { return { success: false, error: err.message } }
tryCatch(r) == IF r.thrown THEN [r EXCEPT !.thrown = FALSE] ELSE r

NoReply == Reply("none", 0, Null, Null, TRUE, NoError, Null)

\* the characters of the names in a directory, and the names
NameChars == {"A", "B", "a"}
MaxNameLen == 2
Names == UNION {[1..n -> NameChars] : n \in 1..MaxNameLen}

\* the entries fs.readdir may return for a directory, in any order: up to
\* MaxEntries entries with different names
MaxEntries == 2
DirEntries == [name : Names, isDirectory : BOOLEAN]
Listings ==
    {es \in UNION {[1..n -> DirEntries] : n \in 0..MaxEntries} :
        \A i, j \in 1..Len(es) : i # j => es[i].name # es[j].name}

\* an empty directory
NoEntries == <<>>

\* the comparison of two sequences of numbers, element by element, a proper
\* prefix first: negative, zero or positive
RECURSIVE seqCompare(_, _)
seqCompare(x, y) ==
    IF x = <<>> /\ y = <<>> THEN 0
    ELSE IF x = <<>> THEN 0 - 1
    ELSE IF y = <<>> THEN 1
    ELSE IF Head(x) # Head(y) THEN Head(x) - Head(y)
    ELSE seqCompare(Tail(x), Tail(y))

\* the weights of a character in the collation of String.prototype
\* .localeCompare: the letter, whatever its case, and the case, the lower
\* case first
primaryWeight(ch) == IF ch = "B" THEN 2 ELSE 1
tertiaryWeight(ch) == IF ch = "a" THEN 0 ELSE 1

\* x.localeCompare(y): by the letters first and, between names of the same
\* letters, by their case
localeCompare(x, y) ==
    LET primary == seqCompare([i \in 1..Len(x) |-> primaryWeight(x[i])],
                              [i \in 1..Len(y) |-> primaryWeight(y[i])])
    IN  IF primary # 0 THEN primary
        ELSE seqCompare([i \in 1..Len(x) |-> tertiaryWeight(x[i])],
                        [i \in 1..Len(y) |-> tertiaryWeight(y[i])])

\* the sort callback without its first two lines: by name only
compareItems_NameOnly(a, b) == localeCompare(a.name, b.name)

\* the callback of items.sort: directories first, then by name
compareItems(a, b) ==
    IF a.isDirectory /\ ~b.isDirectory THEN 0 - 1
    ELSE IF ~a.isDirectory /\ b.isDirectory THEN 1
    ELSE localeCompare(a.name, b.name)

\* Array.prototype.sort with that callback: a stable sort, here by insertion
\* of each item after the sorted items that do not come after it
RECURSIVE insertItem(_, _)
insertItem(sorted, x) ==
    IF sorted = <<>> THEN <<x>>
    ELSE IF compareItems(Head(sorted), x) <= 0
         THEN <<Head(sorted)>> \o insertItem(Tail(sorted), x)
         ELSE <<x>> \o sorted

RECURSIVE sortItems(_)
sortItems(items) ==
    IF items = <<>> THEN <<>>
    ELSE insertItem(sortItems(SubSeq(items, 1, Len(items) - 1)),
                    items[Len(items)])

\* entries.map(...): the name, path.join(resolved, name) and the kind
itemsOf(resolved, entries) ==
    [i \in 1..Len(entries) |->
        [name        |-> entries[i].name,
         path        |-> IF resolved = <<Sep>> THEN resolved \o entries[i].name
                         ELSE resolved \o <<Sep>> \o entries[i].name,
         isDirectory |-> entries[i].isDirectory]]

\* read-file, write-file and read-directory share one shape: validate, then do
\* the I/O on the resolved path, whose outcome is the filesystem's; entries
\* is what fs.readdir returns to read-directory
fileHandler(op, w, filePath, entries) ==
    LET resolved == validateFileAccess(w, filePath) IN
    /\ ~destroyed[w]
    /\ IF filePath = NotAString
       THEN reply' = tryCatch(throw(Reply(op, w, Null, allowedFolders[w],
                                          TRUE, NoError, Null), InvalidArg))
       ELSE IF resolved = Null
       THEN reply' = tryCatch(Reply(op, w, resolve(filePath),
                                    allowedFolders[w], FALSE, AccessDenied,
                                    Null))
       ELSE \E ok \in BOOLEAN :
                LET r == [Reply(op, w, resolved, allowedFolders[w], TRUE,
                                NoError, resolved)
                             EXCEPT !.items = sortItems(itemsOf(resolved,
                                                                entries))]
                IN  reply' = tryCatch(IF ok THEN r
                                      ELSE throw([r EXCEPT !.items = <<>>],
                                                 IoError))
    /\ UNCHANGED <<fsWatchers, closeVars, windowVars, rendererVars>>
    /\ UNCHANGED <<allowedFolders, askPath, watchers, timers, destroyed, lastSent,
                   burst>>

ReadFile(w, filePath) == fileHandler("read-file", w, filePath, NoEntries)

WriteFile(w, filePath) == fileHandler("write-file", w, filePath, NoEntries)

ReadDirectory(w, dirPath, entries) ==
    fileHandler("read-directory", w, dirPath, entries)

\* ipcMain.handle('set-open-folder')
SetOpenFolder(w, folderPath) ==
    /\ ~destroyed[w]
    /\ allowedFolders' = [allowedFolders EXCEPT ![w] = resolve(folderPath)]
    /\ reply' = Reply("set-open-folder", w, Null, Null, TRUE, NoError, Null)
    /\ UNCHANGED <<fsWatchers, closeVars, windowVars, rendererVars>>
    /\ UNCHANGED <<askPath, watchers, timers, destroyed, lastSent, burst>>

----------------------------------------------------------------------------
(* Folder watcher (main.js) *)

\* the debounce delay of the watch callback, in ms
DebounceMs == 300

\* the granularity of the clock, in ms
TickMs == DebounceMs \div 3

\* ages of events are counted up to this many ms
AgeCap == DebounceMs + TickMs

\* a table slot without entry; an entry is {watcher, debounceTimer};
\* debounceTimer is 0 for null and 1 for the handle of the timer set last
\* (which may have fired since)
NoWatcher == [on |-> FALSE, folder |-> Null, debounceTimer |-> 0,
              errored |-> FALSE]
NoEvent == [eventType |-> "none", filename |-> Null]
NoBurst == [n |-> 0, age |-> 0, evt |-> NoEvent, noted |-> 0, cancelled |-> FALSE]
NoSent == [fromLive |-> TRUE, delay |-> 0, evt |-> NoEvent]

NodeModules == <<"n", "o", "d", "e", "_", "m", "o", "d", "u", "l", "e", "s">>
DotGit == <<".", "g", "i", "t">>
PyCache == <<"_", "_", "p", "y", "c", "a", "c", "h", "e", "_", "_">>

\* the events fs.watch reports (the filename is null when the platform gives none)
WatchEvents ==
    {[eventType |-> "change", filename |-> <<"a">>],
     [eventType |-> "rename", filename |-> Null],
     [eventType |-> "change", filename |-> <<".", "a">>],
     [eventType |-> "rename", filename |-> <<"a", "/">> \o DotGit]}

\* String.prototype.includes
Includes(s, sub) ==
    \E i \in 0..(Len(s) - Len(sub)) : SubSeq(s, i + 1, i + Len(sub)) = sub

\* the filter at the head of the watch callback: TRUE when the event is skipped
ignoredEvent(filename) ==
    /\ filename # Null
    /\ \/ StartsWith(filename, <<".">>)
       \/ Includes(filename, NodeModules)
       \/ Includes(filename, DotGit)
       \/ Includes(filename, PyCache)

\* A pending timer is [to, left, evt, cur, orphan]: the window its callback sends
\* to, the ms left, the event its closure holds, whether entry.debounceTimer is
\* its handle, and whether its entry has left the watchers table.

\* clearTimeout(entry.debounceTimer) for the entry of window w in the table: the
\* timer the handle names is removed, if it is still pending
clearTimeout(ts, w) == {t \in ts : ~(t.to = w /\ t.cur /\ ~t.orphan)}

\* cleanupWatcher's timers without the clearTimeout
cleanupTimers_NoClear(senderId) == timers

\* cleanupWatcher(senderId), its effect on the pending timers
cleanupTimers(senderId) ==
    LET entry == watchers[senderId] IN
    IF entry.on /\ entry.debounceTimer # 0
    THEN clearTimeout(timers, senderId)
    ELSE timers

\* the timers left pending for window w belong to an entry that is gone
orphaned(ts, w) == {IF t.to = w THEN [t EXCEPT !.orphan = TRUE] ELSE t : t \in ts}

\* cleanupWatcher that deletes the entry without closing its watcher
closeWatcher_Leak(senderId) == fsWatchers

\* cleanupWatcher(senderId), its entry.watcher.close(), which does nothing
\* to a watcher that an error has closed
closeWatcher(senderId) ==
    IF watchers[senderId].on /\ ~watchers[senderId].errored
    THEN [fsWatchers EXCEPT ![senderId] = @ - 1]
    ELSE fsWatchers

\* cleanupWatcher that empties the table
cleanupWatchers_All(senderId) == [w \in Windows |-> NoWatcher]

\* cleanupWatcher(senderId), its effect on the table: watcher closed, entry deleted
cleanupWatchers(senderId) == [watchers EXCEPT ![senderId] = NoWatcher]

\* the burst of events of a subscription that is cleaned up is over
cancelBurst(b) ==
    IF b.n = 0 THEN b
    ELSE [NoBurst EXCEPT !.n = 1, !.age = b.age, !.noted = b.noted, !.cancelled = TRUE]

\* the reply of a watcher call: {success, error}
WatchReply(op, w, success, error) == Reply(op, w, Null, Null, success, error, Null)

\* ipcMain.handle('watch-folder'); fs.watch may throw (started = FALSE)
WatchFolder(w, folderPath, started) ==
    LET resolved == validateFileAccess(w, folderPath) IN
    /\ ~destroyed[w]
    /\ timers' = orphaned(cleanupTimers(w), w)
    /\ burst' = [burst EXCEPT ![w] = cancelBurst(@)]
    /\ IF folderPath = NotAString
       THEN /\ watchers' = cleanupWatchers(w)
            /\ fsWatchers' = closeWatcher(w)
            /\ reply' = tryCatch(throw(WatchReply("watch-folder", w, TRUE,
                                                  NoError), InvalidArg))
       ELSE IF resolved = Null
       THEN /\ watchers' = cleanupWatchers(w)
            /\ fsWatchers' = closeWatcher(w)
            /\ reply' = tryCatch(WatchReply("watch-folder", w, FALSE,
                                            AccessDenied))
       ELSE IF ~started
       THEN /\ watchers' = cleanupWatchers(w)
            /\ fsWatchers' = closeWatcher(w)
            /\ reply' = tryCatch(throw(WatchReply("watch-folder", w, TRUE,
                                                  NoError), IoError))
       ELSE /\ watchers' = [watchers EXCEPT ![w] =
                                [on |-> TRUE, folder |-> resolved,
                                 debounceTimer |-> 0, errored |-> FALSE]]
            /\ fsWatchers' = [closeWatcher(w) EXCEPT ![w] = @ + 1]
            /\ reply' = tryCatch(WatchReply("watch-folder", w, TRUE, NoError))
    /\ UNCHANGED <<closeVars, windowVars, rendererVars>>
    /\ UNCHANGED <<allowedFolders, askPath, destroyed, lastSent>>

\* ipcMain.handle('unwatch-folder')
UnwatchFolder(w) ==
    /\ ~destroyed[w]
    /\ timers' = orphaned(cleanupTimers(w), w)
    /\ watchers' = cleanupWatchers(w)
    /\ fsWatchers' = closeWatcher(w)
    /\ burst' = [burst EXCEPT ![w] = cancelBurst(@)]
    /\ reply' = WatchReply("unwatch-folder", w, TRUE, NoError)
    /\ UNCHANGED <<closeVars, windowVars, rendererVars>>
    /\ UNCHANGED <<allowedFolders, askPath, destroyed, lastSent>>

\* the debounce of the watch callback that forgets to clear the pending timer
debounceClear_Keep(w) == timers

\* the debounce of the watch callback: clearTimeout(entry.debounceTimer) if set
debounceClear(w) ==
    IF watchers[w].debounceTimer # 0 THEN clearTimeout(timers, w) ELSE timers

\* an event now belongs to burst b: same subscription, and less than the
\* debounce delay after the burst's last event
sameBurst(b) == b.n >= 1 /\ ~b.cancelled /\ b.age < DebounceMs

\* a timer whose time has come runs before any I/O callback of the same loop turn
timerDue == \E t \in timers : t.left = 0

\* a watcher that goes on calling its callback after it has reported an error
watching_AfterError(w) == watchers[w].on

\* the watcher of the entry of window w is open: fs.watch has started it and
\* neither close() nor an error has closed it
watching(w) ==
    watchers[w].on /\ ~watchers[w].errored /\ fsWatchers[w] > 0

\* the pending timers after the callback given to fs.watch has run for an
\* event of window w: as they were for an event the filter skips, and with
\* the debounce timer started again for any other
watchCallback(w, evt) ==
    LET kept == {IF t.to = w /\ ~t.orphan THEN [t EXCEPT !.cur = FALSE] ELSE t :
                     t \in debounceClear(w)}
    IN  IF ignoredEvent(evt.filename) THEN timers
        ELSE kept \cup {[to |-> w, left |-> DebounceMs, evt |-> evt,
                         cur |-> TRUE, orphan |-> FALSE]}

\* the callback given to fs.watch, called by the live watcher of window w
FsEvent(w, evt) ==
    LET b == burst[w]
    IN
    /\ watching(w)
    /\ ~timerDue
    /\ timers' = watchCallback(w, evt)
    /\ IF ignoredEvent(evt.filename)
       THEN UNCHANGED <<watchers, burst>>
       ELSE /\ watchers' = [watchers EXCEPT ![w].debounceTimer = 1]
            /\ burst' = [burst EXCEPT ![w] =
                            [n |-> IF sameBurst(b)
                                   THEN (IF b.n < MaxBurst THEN b.n + 1 ELSE b.n)
                                   ELSE 1,
                             age |-> 0, evt |-> evt,
                             noted |-> IF sameBurst(b) THEN b.noted ELSE 0,
                             cancelled |-> FALSE]]
    /\ UNCHANGED <<fsWatchers, closeVars, windowVars, rendererVars>>
    /\ UNCHANGED <<allowedFolders, reply, askPath, destroyed, lastSent>>

\* the watcher of window w reports an error: fs.FSWatcher has closed its
\* handle and emits 'error', and the listener logs it
WatcherError(w) ==
    /\ watching(w)
    /\ ~timerDue
    /\ watchers' = [watchers EXCEPT ![w].errored = TRUE]
    /\ fsWatchers' = [fsWatchers EXCEPT ![w] = @ - 1]
    /\ UNCHANGED <<closeVars, windowVars, rendererVars>>
    /\ UNCHANGED <<allowedFolders, reply, askPath, timers, destroyed, lastSent,
                   burst>>

\* the setTimeout callback of the debounce: send folder-changed unless the
\* sender is destroyed
TimerFire(t) ==
    /\ t \in timers
    /\ t.left = 0
    /\ timers' = timers \ {t}
    /\ IF ~destroyed[t.to]
       THEN /\ lastSent' = [lastSent EXCEPT ![t.to] =
                               [fromLive |-> ~t.orphan,
                                delay |-> IF t.orphan THEN 0 ELSE burst[t.to].age,
                                evt |-> t.evt]]
            /\ burst' = [burst EXCEPT ![t.to].noted =
                            IF ~t.orphan /\ @ < 2 THEN @ + 1 ELSE @]
       ELSE UNCHANGED <<lastSent, burst>>
    /\ UNCHANGED <<fsWatchers, closeVars, windowVars, rendererVars>>
    /\ UNCHANGED <<allowedFolders, reply, askPath, watchers, destroyed>>

\* the tail of win.on('close'): the allowed folder is forgotten, the window destroyed
WinDestroy(w) ==
    /\ ~destroyed[w]
    /\ allowedFolders' = [allowedFolders EXCEPT ![w] = Null]
    /\ destroyed' = [destroyed EXCEPT ![w] = TRUE]
    /\ UNCHANGED <<fsWatchers, windowVars, rendererVars>>
    /\ UNCHANGED <<reply, askPath, watchers, timers, lastSent, burst>>

\* the least remaining time of the pending timers, at most TickMs
tickStep ==
    LET lefts == {t.left : t \in timers} \cup {TickMs}
    IN  CHOOSE d \in lefts : \A e \in lefts : d <= e

\* the timers and the age of the bursts after d ms
advance(d) ==
    /\ timers' = {[t EXCEPT !.left = @ - d] : t \in timers}
    /\ burst' = [w \in Windows |->
                    IF burst[w].n = 0 THEN burst[w]
                    ELSE [burst[w] EXCEPT !.age =
                             IF @ + d > AgeCap THEN AgeCap ELSE @ + d]]

\* time passes, but not beyond the moment the next timer is due
Tick ==
    /\ ~timerDue
    /\ advance(tickStep)
    /\ timers' # timers \/ burst' # burst
    /\ UNCHANGED <<fsWatchers, closeVars, windowVars, rendererVars>>
    /\ UNCHANGED <<allowedFolders, reply, askPath, watchers, destroyed, lastSent>>

----------------------------------------------------------------------------
(* Renderer: the tab registry of CodeLightApp (src/unnamed/part_000) *)

\* tab objects ever allocated in one run
MaxDocs == 3

\* the renderer's clock is followed up to this millisecond
MaxClock == 3

\* openFile calls that may wait for their read at the same time
MaxOpens == 2

\* saveCurrentFile calls that may wait for a dialog or a write at the same time
MaxSaves == 2

\* file contents: the empty text and one other text
Contents == {"", "x"}

\* the ghost value of a tab that has never been read from or written to a file
NoFile == "none"

P1 == <<"/", "a", "/", "f">>
P2 == <<"/", "a", "a", "/", "f">>

\* the files the user opens and the paths the save dialog returns
FilePaths == {P1, P2}

\* the folders the user opens
OpenFolderInputs == {<<"/", "a">>, <<"/", "a", "a">>}

\* the registry and the editor as one value, so that the methods compose
RS == [tabs |-> tabs, activeTabId |-> activeTabId, editorModel |-> editorModel]

RECURSIVE firstIndex(_, _, _)
\* Array.prototype.findIndex over the positions from i on, 0 for -1
firstIndex(flags, i, n) ==
    IF i > n THEN 0
    ELSE IF flags[i] THEN i
    ELSE firstIndex(flags, i + 1, n)

\* this.tabs.find(t => t.id === id), as a position
findById(ts, id) ==
    firstIndex([i \in 1..Len(ts) |-> ts[i].id = id], 1, Len(ts))

\* this.tabs.find(t => t.path === filePath), as a position
findByPath(ts, p) ==
    firstIndex([i \in 1..Len(ts) |-> ts[i].path = p], 1, Len(ts))

\* the position of a tab object in the list, 0 once it has been spliced out
findByUid(ts, u) ==
    firstIndex([i \in 1..Len(ts) |-> ts[i].uid = u], 1, Len(ts))

\* this.editor.getValue(): the text of the model the editor shows, and the
\* empty text when it shows the model it was created with or none
editorValue(R) ==
    LET i == findByUid(R.tabs, R.editorModel)
    IN  IF i = 0 THEN "" ELSE R.tabs[i].model

activateTab(R, id) ==
    LET i == findById(R.tabs, id)
    IN  IF i = 0 THEN R
        ELSE LET c  == IF R.activeTabId = 0 THEN 0
                       ELSE findById(R.tabs, R.activeTabId)
                 ts == IF c = 0 THEN R.tabs
                       ELSE [R.tabs EXCEPT ![c].content = editorValue(R)]
             IN  [tabs |-> ts, activeTabId |-> id, editorModel |-> ts[i].uid]

\* createTab; now is Date.now(), uid the new object, synced the ghost record of
\* what the file is known to hold
createTab(R, filePath, content, isNew, now, uid, synced) ==
    LET tab == [uid      |-> uid,
                id       |-> now,
                path     |-> IF isNew THEN Null ELSE filePath,
                content  |-> content,
                modified |-> FALSE,
                model    |-> content,
                synced   |-> synced]
    IN  activateTab([R EXCEPT !.tabs = Append(@, tab)], now)

removeAt(ts, i) == SubSeq(ts, 1, i - 1) \o SubSeq(ts, i + 1, Len(ts))

min(a, b) == IF a <= b THEN a ELSE b

\* closeTab without lines 454 to 457: the identifier of the closed tab stays
\* the active one when no tab is left
closeTab_KeepActive(R, id) ==
    LET index == findById(R.tabs, id)
    IN  IF index = 0 THEN R
        ELSE LET tab == R.tabs[index]
                 ts  == removeAt(R.tabs, index)
                 R1  == [tabs        |-> ts,
                         activeTabId |-> R.activeTabId,
                         editorModel |-> IF R.editorModel = tab.uid THEN 0
                                         ELSE R.editorModel]
             IN  IF R.activeTabId # id THEN R1
                 ELSE IF Len(ts) > 0
                      THEN activateTab(R1, ts[min(index, Len(ts))].id)
                      ELSE R1

\* closeTab; disposing the model the editor shows leaves the editor without
\* a model
closeTab(R, id) ==
    LET index == findById(R.tabs, id)
    IN  IF index = 0 THEN R
        ELSE LET tab == R.tabs[index]
                 ts  == removeAt(R.tabs, index)
                 R1  == [tabs        |-> ts,
                         activeTabId |-> R.activeTabId,
                         editorModel |-> IF R.editorModel = tab.uid THEN 0
                                         ELSE R.editorModel]
             IN  IF R.activeTabId # id THEN R1
                 ELSE IF Len(ts) > 0
                      THEN activateTab(R1, ts[min(index, Len(ts))].id)
                      ELSE [R1 EXCEPT !.activeTabId = 0]

RECURSIVE closeEach(_, _)
\* tabsToClose.forEach(tab => this.closeTab(tab.id))
closeEach(R, tabsToClose) ==
    IF tabsToClose = <<>> THEN R
    ELSE closeEach(closeTab(R, Head(tabsToClose).id), Tail(tabsToClose))

closeAllTabs(R) == closeEach(R, R.tabs)

closeAllTabsExcept(R, tabId) ==
    LET keep(t) == t.id # tabId
    IN  closeEach(R, SelectSeq(R.tabs, keep))

\* FileManager.openFolder, the part that runs on the tab list
closeTabsOutside(R, folderPath) ==
    LET outside(t) == t.path = Null \/ ~StartsWith(t.path, folderPath)
    IN  closeEach(R, SelectSeq(R.tabs, outside))

markTabModified(ts, id) ==
    LET i == findById(ts, id)
    IN  IF i # 0 /\ ~ts[i].modified THEN [ts EXCEPT ![i].modified = TRUE]
        ELSE ts

SetRS(R) ==
    /\ tabs' = R.tabs
    /\ activeTabId' = R.activeTabId
    /\ editorModel' = R.editorModel

\* a stored session is {openFolder, tabs, activeTabPath}, each of its tabs
\* {path, content}; NoSession is the null that storage.get gives for no entry
NoSession == [openFolder |-> Null, tabs |-> <<>>, activeTabPath |-> Null,
              stored |-> FALSE]

sessionOf(openFolder, sessionTabs, activeTabPath) ==
    [openFolder |-> openFolder, tabs |-> sessionTabs,
     activeTabPath |-> activeTabPath, stored |-> TRUE]

\* the record saveSession builds: the open folder, path and model text of
\* every document in list order, and the path of the first document that
\* has the active id (null for none, and for one without a path)
snapshot(R, openFolder) ==
    LET k == IF R.activeTabId = 0 THEN 0 ELSE findById(R.tabs, R.activeTabId)
    IN  sessionOf(openFolder,
                  [i \in 1..Len(R.tabs) |->
                      [path |-> R.tabs[i].path, content |-> R.tabs[i].model]],
                  IF k = 0 THEN Null ELSE R.tabs[k].path)

\* StorageManager.set('session', value): the entry becomes the JSON text of
\* the value.  The text of a session keeps its folder, the path and content
\* of every document and the active path, a missing path as null
storageSet(value) == storage' = value

\* StorageManager.get('session'): the value the entry's text parses to, and
\* null (NoSession) while there is no entry
storageGet == storage

saveSession(R, openFolder) == storageSet(snapshot(R, openFolder))

\* the closeTab calls that lead from R to R1: each call that finds its
\* document ends with saveSession, so the entry is that of R1 once a
\* document has gone
closeSaves(R, R1, openFolder) ==
    IF Len(R1.tabs) # Len(R.tabs) THEN saveSession(R1, openFolder)
    ELSE UNCHANGED storage

----------------------------------------------------------------------------
(* Renderer: the user's commands *)

CreateNewFile ==
    /\ nextUid <= MaxDocs
    /\ SetRS(createTab(RS, Null, "", TRUE, clock, nextUid, NoFile))
    /\ nextUid' = nextUid + 1
    /\ UNCHANGED <<mainVars, storage, restore, clock, appOpenFolder, openOps, saveOps, saveAll,
                   errorLog>>

\* a click on a tab
ActivateTab(id) ==
    /\ SetRS(activateTab(RS, id))
    /\ UNCHANGED <<mainVars, storage, restore, clock, nextUid, appOpenFolder, openOps, saveOps,
                   saveAll, errorLog>>

\* a click on a tab's close button, or closeActiveTab
CloseTab(id) ==
    /\ SetRS(closeTab(RS, id))
    /\ closeSaves(RS, closeTab(RS, id), appOpenFolder)
    /\ UNCHANGED <<mainVars, restore, clock, nextUid, appOpenFolder, openOps, saveOps,
                   saveAll, errorLog>>

CloseAllTabs ==
    /\ tabs # <<>>
    /\ SetRS(closeAllTabs(RS))
    /\ closeSaves(RS, closeAllTabs(RS), appOpenFolder)
    /\ UNCHANGED <<mainVars, restore, clock, nextUid, appOpenFolder, openOps, saveOps,
                   saveAll, errorLog>>

CloseAllTabsExcept(tabId) ==
    /\ SetRS(closeAllTabsExcept(RS, tabId))
    /\ closeSaves(RS, closeAllTabsExcept(RS, tabId), appOpenFolder)
    /\ UNCHANGED <<mainVars, restore, clock, nextUid, appOpenFolder, openOps, saveOps,
                   saveAll, errorLog>>

\* FileManager.openFolder from line 111 to line 121
OpenFolder(folderPath) ==
    /\ appOpenFolder' = folderPath
    /\ SetRS(closeTabsOutside(RS, folderPath))
    /\ closeSaves(RS, closeTabsOutside(RS, folderPath), folderPath)
    /\ UNCHANGED <<mainVars, restore, clock, nextUid, openOps, saveOps, saveAll,
                   errorLog>>

\* the user changes the text in the editor to c; onDidChangeModelContent runs
Edit(c) ==
    LET i == findByUid(tabs, editorModel)
    IN  /\ i # 0
        /\ tabs[i].model # c
        /\ LET ts == [tabs EXCEPT ![i].model = c]
           IN  tabs' = IF activeTabId # 0 THEN markTabModified(ts, activeTabId)
                       ELSE ts
        /\ UNCHANGED <<mainVars, storage, restore, activeTabId, editorModel, clock, nextUid,
                       appOpenFolder, openOps, saveOps, saveAll, errorLog>>

\* a millisecond passes
ClockTick ==
    /\ clock < MaxClock
    /\ clock' = clock + 1
    /\ UNCHANGED <<mainVars, storage, restore, tabs, activeTabId, editorModel, nextUid,
                   appOpenFolder, openOps, saveOps, saveAll, errorLog>>

----------------------------------------------------------------------------
(* Renderer: openFile *)

\* one more call op waits, one call op has been resumed
addOp(ops, op) == ops (+) SetToBag({op})
removeOp(ops, op) == ops (-) SetToBag({op})

\* openFile up to its await: an open document with the path is activated,
\* otherwise the read-file request is sent
OpenFile(filePath) ==
    LET existing == findByPath(tabs, filePath)
    IN  /\ IF existing # 0
           THEN /\ SetRS(activateTab(RS, tabs[existing].id))
                /\ UNCHANGED openOps
           ELSE /\ BagCardinality(openOps) < MaxOpens
                /\ nextUid <= MaxDocs
                /\ openOps' = addOp(openOps, filePath)
                /\ UNCHANGED <<tabs, activeTabId, editorModel>>
        /\ UNCHANGED <<mainVars, storage, restore, clock, nextUid, appOpenFolder, saveOps,
                       saveAll, errorLog>>

OpenFailed == "Failed to open file"

\* openFile after its await: the read-file result arrives
OpenFileDone(filePath, success, content) ==
    /\ BagIn(filePath, openOps)
    /\ openOps' = removeOp(openOps, filePath)
    /\ IF success
       THEN /\ nextUid <= MaxDocs
            /\ SetRS(createTab(RS, filePath, content, FALSE, clock, nextUid,
                               content))
            /\ saveSession(createTab(RS, filePath, content, FALSE, clock,
                                     nextUid, content), appOpenFolder)
            /\ nextUid' = nextUid + 1
            /\ UNCHANGED errorLog
       ELSE /\ errorLog' = errorLog \cup {OpenFailed}
            /\ UNCHANGED <<tabs, activeTabId, editorModel, nextUid, storage>>
    /\ UNCHANGED <<mainVars, restore, clock, appOpenFolder, saveOps, saveAll>>

----------------------------------------------------------------------------
(* Renderer: saveCurrentFile and saveAllFiles *)

\* saveCurrentFile up to its first await: the text is taken from the editor,
\* then the dialog is shown for a document without a path and the write-file
\* request is sent for one with a path
SaveCurrentFile ==
    LET i == IF activeTabId = 0 THEN 0 ELSE findById(tabs, activeTabId)
    IN  /\ i # 0
        /\ BagCardinality(saveOps) < MaxSaves
        /\ saveOps' = addOp(saveOps,
                          [stage   |-> IF tabs[i].path = Null THEN "dialog"
                                       ELSE "write",
                           uid     |-> tabs[i].uid,
                           path    |-> tabs[i].path,
                           content |-> editorValue(RS)])
        /\ UNCHANGED <<mainVars, storage, restore, tabs, activeTabId, editorModel, clock, nextUid,
                       appOpenFolder, openOps, saveAll, errorLog>>

\* the save dialog returns to the call op: a cancel ends the call, a path is
\* stored in the tab object and the write-file request is sent
SaveDialogDone(op, canceled, filePath) ==
    LET i == findByUid(tabs, op.uid)
    IN  /\ BagIn(op, saveOps)
        /\ op.stage = "dialog"
        /\ IF canceled
           THEN /\ saveOps' = removeOp(saveOps, op)
                /\ UNCHANGED tabs
           ELSE /\ saveOps' = addOp(removeOp(saveOps, op),
                                    [op EXCEPT !.stage = "write",
                                               !.path = filePath])
                /\ tabs' = IF i = 0 THEN tabs
                           ELSE [tabs EXCEPT ![i].path = filePath]
        /\ UNCHANGED <<mainVars, storage, restore, activeTabId, editorModel, clock, nextUid,
                       appOpenFolder, openOps, saveAll, errorLog>>

\* the success branch of a write of content for the tab object uid: the flag
\* is cleared and the snapshot replaced; the tab object may have left the list
written_NoClear(ts, uid, path, content) ==
    LET i == findByUid(ts, uid)
    IN  IF i = 0 THEN ts
        ELSE [ts EXCEPT ![i].content = content,
                        ![i].synced = IF ts[i].path = path THEN content ELSE @]

written(ts, uid, path, content) ==
    LET i == findByUid(ts, uid)
    IN  IF i = 0 THEN ts
        ELSE [ts EXCEPT ![i].modified = FALSE,
                        ![i].content = content,
                        ![i].synced = IF ts[i].path = path THEN content ELSE @]

\* the write-file result of saveCurrentFile arrives at the call op; a
\* failure has no branch
SaveWriteDone(op, success) ==
    /\ BagIn(op, saveOps)
    /\ op.stage = "write"
    /\ saveOps' = removeOp(saveOps, op)
    /\ tabs' = IF success THEN written(tabs, op.uid, op.path, op.content)
               ELSE tabs
    /\ IF success
       THEN saveSession([RS EXCEPT !.tabs = written(tabs, op.uid, op.path,
                                                    op.content)],
                        appOpenFolder)
       ELSE UNCHANGED storage
    /\ UNCHANGED <<mainVars, restore, activeTabId, editorModel, clock, nextUid,
                   appOpenFolder, openOps, saveAll, errorLog>>

NoSaveAll == [pc |-> "idle", index |-> 0, uid |-> 0, path |-> Null,
              content |-> "", start |-> {}, issued |-> {}, failed |-> {}]

dirtyWithPath(t) == t.modified /\ t.path # Null

\* the for-of loop over this.tabs from position from on: the first document
\* that is dirty and has a path, 0 when the iterator is exhausted
nextToSave(ts, from) ==
    firstIndex([i \in 1..Len(ts) |-> dirtyWithPath(ts[i])], from, Len(ts))

\* the loop runs on from position from until it awaits a write or ends;
\* start, issued and failed record the documents that were dirty with a path
\* when the call began, those a write has been sent for, and those whose
\* write failed
saveAllFrom(ts, from, start, issued, failed) ==
    LET i == nextToSave(ts, from)
    IN  IF i = 0 THEN NoSaveAll
        ELSE [pc      |-> "write",
              index   |-> i,
              uid     |-> ts[i].uid,
              path    |-> ts[i].path,
              content |-> ts[i].model,
              start   |-> start,
              issued  |-> issued \cup {ts[i].uid},
              failed  |-> failed]

SaveAllFiles ==
    /\ saveAll.pc = "idle"
    /\ saveAll' = saveAllFrom(tabs, 1,
                     {tabs[i].uid : i \in {j \in 1..Len(tabs) :
                                               dirtyWithPath(tabs[j])}},
                     {}, {})
    /\ saveAll'.pc = "write"
    /\ UNCHANGED <<mainVars, storage, restore, tabs, activeTabId, editorModel, clock, nextUid,
                   appOpenFolder, openOps, saveOps, errorLog>>

\* the write-file result of saveAllFiles arrives and the loop goes on
SaveAllWriteDone(success) ==
    /\ saveAll.pc = "write"
    /\ tabs' = IF success
               THEN written(tabs, saveAll.uid, saveAll.path, saveAll.content)
               ELSE tabs
    /\ saveAll' = saveAllFrom(tabs', saveAll.index + 1, saveAll.start,
                              saveAll.issued,
                              IF success THEN saveAll.failed
                              ELSE saveAll.failed \cup {saveAll.uid})
    /\ UNCHANGED <<mainVars, storage, restore, activeTabId, editorModel, clock, nextUid,
                   appOpenFolder, openOps, saveOps, errorLog>>

----------------------------------------------------------------------------
(* Renderer: restoreSession *)

unsavedEntry(content) == [path |-> Null, content |-> content]
fileEntry(path) == [path |-> path, content |-> "x"]

\* the sessions found at startup
Sessions ==
    {NoSession,
     sessionOf(Null, <<unsavedEntry("x"), unsavedEntry("x")>>, Null),
     sessionOf(Null, <<unsavedEntry(""), unsavedEntry("x")>>, Null),
     sessionOf(Null, <<fileEntry(P1), unsavedEntry("x")>>, P1),
     sessionOf(<<"/", "a">>, <<fileEntry(P1), fileEntry(P2)>>, P1)}

RECURSIVE restoreLoop(_, _, _, _, _)
\* the loop over session.tabs from entry i on, until it awaits a read-file
\* result or ends: unsaved entries with content become tabs at once, and
\* after the last entry the tab of activeTabPath is activated
restoreLoop(R, session, i, now, uid) ==
    IF i > Len(session.tabs)
    THEN LET k == IF session.activeTabPath = Null THEN 0
                  ELSE findByPath(R.tabs, session.activeTabPath)
         IN  [R   |-> IF k = 0 THEN R ELSE activateTab(R, R.tabs[k].id),
              pc  |-> "done", i |-> i, uid |-> uid]
    ELSE IF session.tabs[i].path # Null
    THEN [R |-> R, pc |-> "read", i |-> i, uid |-> uid]
    ELSE IF session.tabs[i].content # ""
    THEN restoreLoop(createTab(R, Null, session.tabs[i].content, TRUE, now,
                               uid, NoFile),
                     session, i + 1, now, uid + 1)
    ELSE restoreLoop(R, session, i + 1, now, uid)

\* restoreSession goes on from entry i; failed is the record of the entries
\* whose read has failed
restoreFrom(R, session, i, uid, failed) ==
    LET out == restoreLoop(R, session, i, clock, uid)
    IN  /\ SetRS(out.R)
        /\ nextUid' = out.uid
        /\ restore' = [restore EXCEPT !.pc = out.pc, !.i = out.i,
                                      !.session = session, !.failed = failed]

\* restoreSession up to its first await after storage.get: a window loaded
\* with isNewWindow=true returns at once; no entry ends the call; a session
\* with a folder calls FileManager.openFolder, which runs up to its first
\* await
RestoreSession ==
    LET session == storageGet
    IN  /\ restore.pc = "start"
        /\ IF restore.isNewWindow = "true" \/ ~session.stored
           THEN /\ restore' = [restore EXCEPT !.pc = "done"]
                /\ UNCHANGED <<tabs, activeTabId, editorModel, nextUid,
                               appOpenFolder, storage>>
           ELSE IF session.openFolder # Null
           THEN /\ appOpenFolder' = session.openFolder
                /\ SetRS(closeTabsOutside(RS, session.openFolder))
                /\ closeSaves(RS, closeTabsOutside(RS, session.openFolder),
                              session.openFolder)
                /\ restore' = [restore EXCEPT !.pc = "folder",
                                              !.session = session]
                /\ UNCHANGED nextUid
           ELSE /\ restoreFrom(RS, session, 1, nextUid, {})
                /\ UNCHANGED <<appOpenFolder, storage>>
        /\ UNCHANGED <<mainVars, clock, openOps, saveOps, saveAll, errorLog>>

\* FileManager.openFolder returns to restoreSession
RestoreFolderDone ==
    /\ restore.pc = "folder"
    /\ restoreFrom(RS, restore.session, 1, nextUid, {})
    /\ UNCHANGED <<mainVars, storage, clock, appOpenFolder, openOps, saveOps, saveAll,
                   errorLog>>

\* the read-file result for entry restore.i arrives
RestoreReadDone(success, content) ==
    /\ restore.pc = "read"
    /\ IF success
       THEN restoreFrom(createTab(RS, restore.session.tabs[restore.i].path,
                                  content, FALSE, clock, nextUid, content),
                        restore.session, restore.i + 1, nextUid + 1,
                        restore.failed)
       ELSE restoreFrom(RS, restore.session, restore.i + 1, nextUid,
                        restore.failed \cup {restore.i})
    /\ UNCHANGED <<mainVars, storage, clock, appOpenFolder, openOps, saveOps, saveAll,
                   errorLog>>

----------------------------------------------------------------------------
(* Renderer: FileManager (src/src/modules/file-manager.js) *)

\* FileManager calls (openFolder, refreshFileTree, createFile) that may be in
\* progress at the same time
MaxCalls == 2

\* the refresh requests that arrive during one render are counted up to this
MaxAsked == 2

\* the delay of the timer that clears the suppression flag, in ms
SuppressMs == 500

\* the time since suppressWatcher's last call is counted up to this, in ms
SuppressCap == SuppressMs + TickMs

\* the window of the renderer
Win == 1

FolderA == <<"/", "a">>
FolderB == <<"/", "a", "a">>
FolderInA == <<"/", "a", "/", "a">>

\* the folders the user opens in the file tree: two siblings, the name of one
\* beginning with the name of the other, and a folder inside the first
TreeFolders == {FolderA, FolderB, FolderInA}

\* a call in progress: the method, the await it is at, its path argument,
\* the result of the IPC call it waits for, (for a refresh) the requests
\* that came while it was rendering, and whether a notification has arrived
\* since its renderFileTree began
call(kind, pc, folder) ==
    [kind |-> kind, pc |-> pc, folder |-> folder, res |-> "none", asked |-> 0,
     root |-> Null, was |-> FALSE, stale |-> FALSE]

\* a fire-and-forget IPC call has no caller to resume
NoCall == call("none", "none", Null)

\* ipcRenderer.invoke(op, arg) of the call c
request(op, arg, c) == [op |-> op, arg |-> arg, call |-> c]

canCall == BagCardinality(calls) < MaxCalls

\* the render guard of the FileManager as one value
TS == [isRendering |-> isRendering, pendingRefresh |-> pendingRefresh,
       calls |-> calls]

SetTS(T) ==
    /\ isRendering' = T.isRendering
    /\ pendingRefresh' = T.pendingRefresh
    /\ calls' = T.calls

\* a refresh request came while the calls cs were in progress: the refresh
\* renders count it, and every renderFileTree that has begun is older than it
noteAsked(cs) ==
    LET bump(c) == IF c.kind = "refresh"
                   THEN [c EXCEPT !.asked = min(@ + 1, MaxAsked)]
                   ELSE c
        mark(c) == IF c.pc \in {"tree", "children"}
                   THEN [bump(c) EXCEPT !.stale = TRUE]
                   ELSE bump(c)
    IN  BagOfAll(mark, cs)

\* refreshFileTree up to its first await: flagged as pending while a render
\* is in progress, started otherwise
refreshFileTree(T) ==
    IF T.isRendering
    THEN [T EXCEPT !.pendingRefresh = TRUE]
    ELSE [T EXCEPT !.isRendering = TRUE,
                   !.calls = addOp(@, call("refresh", "git", Null))]

\* refreshFileTree's finally block, run when the render of the call c ends
refreshFinally(T, c) ==
    LET T1 == [isRendering |-> FALSE, pendingRefresh |-> T.pendingRefresh,
               calls |-> removeOp(T.calls, c)]
    IN  IF T.pendingRefresh
        THEN refreshFileTree([T1 EXCEPT !.pendingRefresh = FALSE])
        ELSE T1

\* the finally block of openFolder and createFile, with the call c moved on
\* to cNext (or ended, for NoCall)
renderFinally(T, c, cNext) ==
    [isRendering |-> FALSE, pendingRefresh |-> FALSE,
     calls |-> IF cNext = NoCall THEN removeOp(T.calls, c)
               ELSE addOp(removeOp(T.calls, c), cNext)]

\* the listener of folder-changed (setupFolderWatcher)
onFolderChanged ==
    /\ IF ~suppressFlag /\ appOpenFolder # Null
       THEN /\ canCall \/ isRendering
            /\ SetTS(refreshFileTree([TS EXCEPT !.calls = noteAsked(@)]))
       ELSE UNCHANGED <<isRendering, pendingRefresh, calls>>
    /\ UNCHANGED <<isWatching, suppressFlag, suppressTimer, suppressAge, ipc,
                   domVars>>

\* suppressWatcher's timer that is set without clearing the one before
restartTimer_NoClear(pending) == pending \cup {SuppressMs}

\* clearTimeout(this._suppressTimer), then setTimeout(..., 500)
restartTimer(pending) == {SuppressMs}

\* suppressWatcher: the flag is set and its timer restarted
suppressWatcher ==
    /\ suppressFlag' = TRUE
    /\ suppressTimer' = restartTimer(suppressTimer)
    /\ suppressAge' = 0

suppressDue == 0 \in suppressTimer

\* a callback of suppressWatcher's timer
SuppressTimerFire ==
    /\ suppressDue
    /\ suppressFlag' = FALSE
    /\ suppressTimer' = suppressTimer \ {0}
    /\ UNCHANGED suppressAge
    /\ UNCHANGED <<mainVars, rendererVars, isWatching, isRendering,
                   pendingRefresh, calls, ipc, domVars>>

\* openFolder from line 111 to the await of line 125, for the call c
openFolderBody(c) ==
    /\ OpenFolder(c.folder)
    /\ ipc' = Append(ipc, request("set-open-folder", c.folder, NoCall))
    /\ isRendering' = TRUE
    /\ UNCHANGED pendingRefresh

\* FileManager.openFolder is called: a watching FileManager first awaits
\* unwatch-folder
FilesOpenFolder(folderPath) ==
    LET c == call("openFolder", "unwatch", folderPath)
    IN  /\ canCall
        /\ IF isWatching
           THEN /\ ipc' = Append(ipc, request("unwatch-folder", Null, c))
                /\ calls' = addOp(calls, c)
                /\ UNCHANGED <<mainVars, rendererVars, isRendering,
                               pendingRefresh>>
           ELSE /\ openFolderBody(c)
                /\ calls' = addOp(calls, [c EXCEPT !.pc = "git"])
        /\ UNCHANGED <<isWatching, suppressFlag, suppressTimer, suppressAge,
                       domVars>>

\* unwatch-folder has returned to openFolder
UnwatchReturned(c) ==
    /\ BagIn(c, calls)
    /\ c.kind = "openFolder" /\ c.pc = "unwatch" /\ c.res # "none"
    /\ isWatching' = FALSE
    /\ openFolderBody(c)
    /\ calls' = addOp(removeOp(calls, c), [c EXCEPT !.pc = "git", !.res = "none"])
    /\ UNCHANGED <<suppressFlag, suppressTimer, suppressAge, domVars>>

\* the tree renderFileTree builds for a folder: the item of the one directory
\* the folder may hold.  A directory item is [dir, expanded, lists, loading,
\* before]: its path, whether its wrapper has the class expanded, the
\* .tree-children elements appended to its wrapper, the click handlers that
\* await its listing, and (in a sequence that is empty before the first such
\* click) the expanded folders as they were when a click last expanded it;
\* NoItem stands for a tree without a directory item
item(dir, expanded, lists) ==
    [dir |-> dir, expanded |-> expanded, lists |-> lists, loading |-> 0,
     before |-> <<>>]
NoItem == item(Null, FALSE, 0)

\* the directory a folder may hold
dirIn(folder) == folder \o <<"/", "a">>

\* some tree in the container shows the directory expanded
renderedExpanded(dir) ==
    \E i \in 1..Len(container) :
        container[i].dir = dir /\ container[i].expanded

\* refreshGitStatus has returned: renderFileTree starts, for the folder
\* openFolder was given or else for the open folder; it empties the container
\* and awaits the listing of the folder
GitDone(c) ==
    LET root == IF c.kind = "openFolder" THEN c.folder ELSE appOpenFolder
    IN  /\ BagIn(c, calls)
        /\ c.pc = "git"
        /\ calls' = addOp(removeOp(calls, c),
                          [c EXCEPT !.pc = "tree",
                                    !.folder = IF c.kind = "refresh"
                                               THEN appOpenFolder ELSE @,
                                    !.root = root,
                                    !.was = renderedExpanded(dirIn(root))])
        /\ container' = <<>>
        /\ UNCHANGED <<mainVars, rendererVars, isWatching, isRendering,
                       pendingRefresh, suppressFlag, suppressTimer,
                       suppressAge, ipc, expandedFolders, dirs>>

\* renderFileTree appends the tree and returns to the call c: the finally
\* block of the caller runs, then the rest of the caller up to its next await
renderReturns(c, tree) ==
    /\ container' = Append(container, tree)
    /\ CASE c.kind = "refresh" ->
              /\ SetTS(refreshFinally(TS, c))
              /\ UNCHANGED <<mainVars, rendererVars, ipc>>
         [] c.kind = "openFolder" ->
              LET cNext == [c EXCEPT !.pc = "watch", !.stale = FALSE]
              IN  /\ SetTS(renderFinally(TS, c, cNext))
                  /\ ipc' = Append(ipc, request("watch-folder", c.folder, cNext))
                  /\ saveSession(RS, appOpenFolder)
                  /\ UNCHANGED <<mainVars, registryVars>>
         [] c.kind = "createFile" ->
              /\ SetTS(renderFinally(TS, c, NoCall))
              /\ OpenFile(c.folder)
              /\ UNCHANGED ipc
    /\ UNCHANGED <<isWatching, suppressFlag, suppressTimer, suppressAge,
                   expandedFolders, dirs>>

\* a listing has returned to renderFileTree.  After the listing of the folder
\* (pc "tree") createTreeItem of a directory that is to be shown expanded
\* awaits the listing of the directory (pc "children"); otherwise, and after
\* that listing, the tree is complete
TreeDone(c) ==
    LET dir == dirIn(c.root)
    IN  /\ BagIn(c, calls)
        /\ c.pc \in {"tree", "children"}
        /\ IF c.pc = "tree" /\ dir \in dirs /\ dir \in expandedFolders
           THEN /\ calls' = addOp(removeOp(calls, c),
                                  [c EXCEPT !.pc = "children"])
                /\ UNCHANGED <<mainVars, rendererVars, isWatching,
                               isRendering, pendingRefresh, suppressFlag,
                               suppressTimer, suppressAge, ipc, domVars>>
           ELSE renderReturns(c, IF c.pc = "children" THEN item(dir, TRUE, 1)
                                 ELSE IF dir \in dirs THEN item(dir, FALSE, 0)
                                 ELSE NoItem)

\* the children lists of one item and the listings its click handlers await,
\* together
MaxLoads == 2

\* a click came while the renders cs were in progress: what they find is no
\* longer what the tree showed when they emptied the container
clicked(cs) ==
    LET forget(c) == [c EXCEPT !.was = FALSE]
    IN  BagOfAll(forget, cs)

\* the click handler of the directory item of the i-th tree, up to its await:
\* it toggles the class expanded; expanding adds the path to the expanded
\* folders and, when the wrapper holds no .tree-children element, awaits the
\* listing of the directory; collapsing deletes the path
Click(i) ==
    LET it == container[i]
    IN  /\ i \in 1..Len(container)
        /\ it.dir # Null
        /\ IF ~it.expanded
           THEN /\ it.lists = 0 => it.lists + it.loading < MaxLoads
                /\ expandedFolders' = expandedFolders \cup {it.dir}
                /\ container' =
                       [container EXCEPT
                           ![i] = [it EXCEPT !.expanded = TRUE,
                                             !.before = <<expandedFolders>>,
                                             !.loading = IF it.lists = 0
                                                         THEN @ + 1 ELSE @]]
           ELSE /\ expandedFolders' = expandedFolders \ {it.dir}
                /\ container' = [container EXCEPT ![i].expanded = FALSE]
        /\ calls' = clicked(calls)
        /\ UNCHANGED <<mainVars, rendererVars, isWatching, isRendering,
                       pendingRefresh, suppressFlag, suppressTimer,
                       suppressAge, ipc, dirs>>

\* the listing has returned to a click handler of the directory item of the
\* i-th tree: it appends its .tree-children element to the wrapper
ClickLoaded(i) ==
    /\ i \in 1..Len(container)
    /\ container[i].loading > 0
    /\ container' = [container EXCEPT ![i].loading = @ - 1, ![i].lists = @ + 1]
    /\ UNCHANGED <<mainVars, rendererVars, isWatching, isRendering,
                   pendingRefresh, suppressFlag, suppressTimer, suppressAge,
                   calls, ipc, expandedFolders, dirs>>

\* the directory is deleted or created on the disk, by any program
DirChange ==
    /\ dirs' = IF FolderInA \in dirs THEN {} ELSE {FolderInA}
    /\ UNCHANGED <<mainVars, rendererVars, isWatching, isRendering,
                   pendingRefresh, suppressFlag, suppressTimer, suppressAge,
                   calls, ipc, expandedFolders, container>>

\* watch-folder has returned to openFolder
WatchReturned(c) ==
    /\ BagIn(c, calls)
    /\ c.kind = "openFolder" /\ c.pc = "watch" /\ c.res # "none"
    /\ isWatching' = (IF c.res = "ok" THEN TRUE ELSE isWatching)
    /\ calls' = removeOp(calls, c)
    /\ UNCHANGED <<mainVars, rendererVars, isRendering, pendingRefresh,
                   suppressFlag, suppressTimer, suppressAge, ipc, domVars>>

\* the path createFile builds for a file named f in parentPath
childPath(parentPath) == parentPath \o <<"/", "f">>

\* the parentPath of such a path
parentOf(filePath) == SubSeq(filePath, 1, Len(filePath) - 2)

\* FileManager.createFile up to its await of write-file
CreateFile(parentPath) ==
    LET c == call("createFile", "write", childPath(parentPath))
    IN  /\ canCall
        /\ suppressWatcher
        /\ ipc' = Append(ipc, request("write-file", c.folder, c))
        /\ calls' = addOp(calls, c)
        /\ UNCHANGED <<mainVars, rendererVars, isWatching, isRendering,
                       pendingRefresh, domVars>>

\* write-file has returned to createFile
CreateWriteReturned(c) ==
    /\ BagIn(c, calls)
    /\ c.kind = "createFile" /\ c.pc = "write" /\ c.res # "none"
    /\ IF c.res = "ok"
       THEN /\ expandedFolders' = expandedFolders \cup {parentOf(c.folder)}
            /\ isRendering' = TRUE
            /\ calls' = addOp(removeOp(calls, c),
                              [c EXCEPT !.pc = "git", !.res = "none"])
       ELSE /\ calls' = removeOp(calls, c)
            /\ UNCHANGED <<isRendering, expandedFolders>>
    /\ UNCHANGED <<mainVars, rendererVars, isWatching, pendingRefresh,
                   suppressFlag, suppressTimer, suppressAge, ipc, container,
                   dirs>>

\* the result of the request r reaches the call that awaits it
deliver(r) ==
    calls' = addOp(removeOp(calls, r.call),
                   [r.call EXCEPT !.res = IF reply'.success THEN "ok" ELSE "fail"])

\* the main process handles the oldest request of the window
MainHandle ==
    /\ ipc # <<>>
    /\ ipc' = Tail(ipc)
    /\ LET r == Head(ipc)
       IN  CASE r.op = "unwatch-folder" -> UnwatchFolder(Win) /\ deliver(r)
             [] r.op = "set-open-folder" ->
                    SetOpenFolder(Win, r.arg) /\ UNCHANGED calls
             [] r.op = "watch-folder" ->
                    \E started \in BOOLEAN :
                        WatchFolder(Win, r.arg, started) /\ deliver(r)
             [] r.op = "write-file" -> WriteFile(Win, r.arg) /\ deliver(r)
    /\ UNCHANGED <<isWatching, isRendering, pendingRefresh, suppressFlag,
                   suppressTimer, suppressAge, domVars>>

\* a change in the watched folder of the window
TreeFsEvent(evt) ==
    /\ FsEvent(Win, evt)
    /\ UNCHANGED treeVars

\* the debounce timer fires and folder-changed, if sent, reaches the listener
Notify(t) ==
    /\ t.to = Win
    /\ TimerFire(t)
    /\ IF ~destroyed[Win] THEN onFolderChanged ELSE UNCHANGED treeVars

\* folder-changed reaches the listener, whenever the main process sent it
FolderChanged ==
    /\ watchers[Win].on
    /\ onFolderChanged
    /\ UNCHANGED <<mainVars, rendererVars>>

\* the least remaining time of all pending timers, at most TickMs
treeStep ==
    LET lefts == {t.left : t \in timers} \cup {TickMs}
                 \cup suppressTimer
    IN  CHOOSE d \in lefts : \A e \in lefts : d <= e

\* time passes in both processes, but not beyond the moment a timer is due
TreeTick ==
    /\ ~timerDue
    /\ ~suppressDue
    /\ advance(treeStep)
    /\ suppressTimer' = {left - treeStep : left \in suppressTimer}
    /\ suppressAge' = IF suppressAge = NoTimer THEN NoTimer
                      ELSE min(suppressAge + treeStep, SuppressCap)
    /\ \/ timers' # timers
       \/ burst' # burst
       \/ suppressTimer' # suppressTimer
       \/ suppressAge' # suppressAge
    /\ UNCHANGED <<fsWatchers, closeVars, windowVars, rendererVars>>
    /\ UNCHANGED <<allowedFolders, reply, askPath, watchers, destroyed, lastSent>>
    /\ UNCHANGED <<isWatching, isRendering, pendingRefresh, suppressFlag, calls,
                   ipc, domVars>>

\* saveCurrentFile of a document with a path, with its write-file request
SaveSend ==
    LET i == IF activeTabId = 0 THEN 0 ELSE findById(tabs, activeTabId)
        c == call("save", "write", tabs[i].path)
    IN  /\ i # 0
        /\ tabs[i].path # Null
        /\ canCall
        /\ SaveCurrentFile
        /\ ipc' = Append(ipc, request("write-file", tabs[i].path, c))
        /\ calls' = addOp(calls, c)
        /\ UNCHANGED <<isWatching, isRendering, pendingRefresh, suppressFlag,
                       suppressTimer, suppressAge, domVars>>

\* the write-file result reaches the saveCurrentFile call op
SaveReturned(op, c) ==
    /\ BagIn(c, calls)
    /\ c.kind = "save" /\ c.res # "none" /\ c.folder = op.path
    /\ SaveWriteDone(op, c.res = "ok")
    /\ calls' = removeOp(calls, c)
    /\ UNCHANGED <<isWatching, isRendering, pendingRefresh, suppressFlag,
                   suppressTimer, suppressAge, ipc, domVars>>

\* the name fs.watch gives for the path p below the watched folder
relativeName(p, folder) == SubSeq(p, Len(folder) + 2, Len(p))

\* the write-file handled last has changed a file below the watched folder
\* of the window, and the watcher reports it
WriteEvent ==
    /\ reply.op = "write-file" /\ reply.sender = Win /\ reply.success
    /\ watchers[Win].on
    /\ reply.io # watchers[Win].folder
    /\ withinAllowed(reply.io, watchers[Win].folder)
    /\ TreeFsEvent([eventType |-> "change",
                    filename |-> relativeName(reply.io, watchers[Win].folder)])

InitTree ==
    /\ isWatching = FALSE
    /\ isRendering = FALSE
    /\ pendingRefresh = FALSE
    /\ suppressFlag = FALSE
    /\ suppressTimer = {}
    /\ suppressAge = NoTimer
    /\ calls = EmptyBag
    /\ ipc = <<>>
    /\ expandedFolders = {}
    /\ container = <<>>
    /\ dirs = {FolderInA}

----------------------------------------------------------------------------
(* The close handler of a window (main.js) *)

\* the time the handler waits for the answer to check-unsaved-changes, in ms
QueryMs == 2000

\* the time the handler waits for save-all-done, in ms
SaveAllMs == 5000

\* time passes in steps of at most this while the handler waits, in ms
CloseTickMs == 1000

\* the messages sent to the renderer and not yet dispatched are at most this
MaxUnheard == 2

\* the channels the preload script listens on (ipcRenderer.on)
ListenedChannels ==
    {"folder-changed", "menu-new-file", "menu-open-file", "menu-open-folder",
     "menu-save", "menu-save-all", "menu-close-tab"}

\* a run of the handler: whether a document was dirty when the close was
\* requested, the button chosen in the dialog, and how the run ended
run(dirty, choice, end) == [dirty |-> dirty, choice |-> choice, end |-> end]

NoRun == run(FALSE, "none", "none")

\* some document has unsaved changes
hasDirty == \E i \in 1..Len(tabs) : tabs[i].modified

closeFrame ==
    UNCHANGED <<allowedFolders, reply, askPath, watchers, timers, destroyed,
                lastSent, burst, fsWatchers, windowVars, rendererVars,
                treeVars>>

\* win.on('close') up to the await of the race: the close is prevented, the
\* query sent to the renderer and the timeout started
CloseRequested ==
    /\ ~destroyed[Win]
    /\ closePc = "idle"
    /\ Len(toRenderer) < MaxUnheard
    /\ closePc' = "query"
    /\ closeTimer' = QueryMs
    /\ closeRun' = run(hasDirty, "none", "none")
    /\ toRenderer' = Append(toRenderer, "check-unsaved-changes")
    /\ closeFrame

\* the renderer dispatches the oldest message: one on a channel nobody
\* listens on has no effect
RendererDispatch ==
    /\ ~destroyed[Win]
    /\ toRenderer # <<>>
    /\ Head(toRenderer) \notin ListenedChannels
    /\ toRenderer' = Tail(toRenderer)
    /\ UNCHANGED <<closePc, closeTimer, closeRun>>
    /\ closeFrame

\* the race has resolved with hasUnsaved: the dialog is shown, or the
\* handler goes on to saveWindowState
afterQuery(hasUnsaved) ==
    /\ closePc' = (IF hasUnsaved THEN "dialog" ELSE "state")
    /\ closeTimer' = NoTimer
    /\ UNCHANGED <<closeRun, toRenderer>>
    /\ closeFrame

\* the timeout of the query resolves the race with false
QueryTimeout ==
    /\ closePc = "query"
    /\ closeTimer = 0
    /\ afterQuery(FALSE)

\* the listener of unsaved-check-<id> resolves the race with the result sent;
\* the preload script has no function that sends on this channel
QueryAnswered(result) ==
    /\ closePc = "query"
    /\ afterQuery(result)

\* the user chooses a button of the dialog: 0 Save All, 1 Don't Save, 2 Cancel
DialogChoice(response) ==
    /\ closePc = "dialog"
    /\ CASE response = 0 ->
              /\ closePc' = "saving"
              /\ closeTimer' = SaveAllMs
              /\ closeRun' = [closeRun EXCEPT !.choice = "saveAll"]
              /\ toRenderer' = Append(toRenderer, "save-all-files")
         [] response = 1 ->
              /\ closePc' = "state"
              /\ closeRun' = [closeRun EXCEPT !.choice = "discard"]
              /\ UNCHANGED <<closeTimer, toRenderer>>
         [] response = 2 ->
              /\ closePc' = "idle"
              /\ closeRun' = [closeRun EXCEPT !.choice = "cancel",
                                              !.end = "cancel"]
              /\ UNCHANGED <<closeTimer, toRenderer>>
    /\ closeFrame

\* save-all-done-<id> arrives, or the timeout of the save-all request fires
SaveAllOver(timedOut) ==
    /\ closePc = "saving"
    /\ timedOut => closeTimer = 0
    /\ closePc' = "state"
    /\ closeTimer' = NoTimer
    /\ UNCHANGED <<closeRun, toRenderer>>
    /\ closeFrame

\* saveWindowState has written the window state, and the window is
\* destroyed; or its fs.writeFile has failed, and the handler ends there
StateSaved(ok) ==
    /\ closePc = "state"
    /\ closePc' = "idle"
    /\ UNCHANGED <<closeTimer, toRenderer>>
    /\ IF ok
       THEN /\ closeRun' = [closeRun EXCEPT !.end = "destroyed"]
            /\ WinDestroy(Win)
            /\ UNCHANGED treeVars
       ELSE /\ closeRun' = [closeRun EXCEPT !.end = "rejected"]
            /\ closeFrame

\* time passes while the handler waits for the renderer
CloseTick ==
    /\ closeTimer > 0
    /\ closeTimer' = closeTimer - min(closeTimer, CloseTickMs)
    /\ UNCHANGED <<closePc, closeRun, toRenderer>>
    /\ closeFrame

----------------------------------------------------------------------------
(* Main process: createWindow (src/src/main.js) *)

\* the windows that are created in a run
MaxWindows == 3

WindowIds == 1..MaxWindows

\* the page of a window: the isNewWindow value of its query, and the number
\* of windows that were open when createWindow was called for it
page(isNewWindow, others) == [isNewWindow |-> isNewWindow, others |-> others]
NoPage == page("none", 0)

\* the isNewWindow value createWindow passes, the window having been pushed
isNewWindow_BeforePush(ws) == IF Len(ws) - 1 > 1 THEN "true" ELSE ""

isNewWindow(ws) == IF Len(ws) > 1 THEN "true" ELSE ""

\* the state of the renderer of a page that has been loaded with the query
\* value q: the constructor has run and init is about to call restoreSession
loadFile(q) ==
    /\ tabs' = <<>>
    /\ activeTabId' = 0
    /\ editorModel' = 0
    /\ appOpenFolder' = Null
    /\ openOps' = EmptyBag
    /\ saveOps' = EmptyBag
    /\ saveAll' = NoSaveAll
    /\ restore' = [pc |-> "start", session |-> NoSession, i |-> 0,
                  failed |-> {}, isNewWindow |-> q]

\* createWindow, from New Window of the menus or from app.on('activate');
\* the renderer that is followed from here on is that of the new window
CreateWindow ==
    \E w \in WindowIds :
        /\ pages[w] = NoPage
        /\ \A v \in WindowIds : v < w => pages[v] # NoPage
        /\ windows' = Append(windows, w)
        /\ pages' = [pages EXCEPT
                        ![w] = page(isNewWindow(windows'), Len(windows))]
        /\ loadFile(isNewWindow(windows'))
        /\ UNCHANGED <<allowedFolders, reply, askPath, watchers, timers,
                       destroyed, lastSent, burst, fsWatchers, closeVars>>
        /\ UNCHANGED <<clock, nextUid, errorLog, storage>>

\* win.on('closed')
WinClosed(w) ==
    /\ \E i \in 1..Len(windows) : windows[i] = w
    /\ windows' = SelectSeq(windows, LAMBDA v : v # w)
    /\ UNCHANGED <<allowedFolders, reply, askPath, watchers, timers,
                   destroyed, lastSent, burst, fsWatchers, closeVars, pages,
                   rendererVars>>

----------------------------------------------------------------------------
(* Initial states and specifications *)

InitRenderer ==
    /\ tabs = <<>>
    /\ activeTabId = 0
    /\ editorModel = 0
    /\ clock = 1
    /\ nextUid = 1
    /\ appOpenFolder = Null
    /\ openOps = EmptyBag
    /\ saveOps = EmptyBag
    /\ saveAll = NoSaveAll
    /\ errorLog = {}
    /\ restore = [pc |-> "done", session |-> NoSession, i |-> 0,
                 failed |-> {}, isNewWindow |-> ""]
    /\ storage = NoSession

\* the main process once the app is ready, without its windows
InitProcess ==
    /\ allowedFolders = [w \in Windows |-> Null]
    /\ reply = NoReply
    /\ watchers = [w \in Windows |-> NoWatcher]
    /\ timers = {}
    /\ destroyed = [w \in Windows |-> FALSE]
    /\ lastSent = [w \in Windows |-> NoSent]
    /\ burst = [w \in Windows |-> NoBurst]
    /\ fsWatchers = [w \in Windows |-> 0]
    /\ closePc = "idle"
    /\ closeTimer = NoTimer
    /\ closeRun = NoRun
    /\ toRenderer = <<>>

\* the main process with the windows of Windows open: the first one created
\* at startup, the second one by New Window
InitMain ==
    /\ InitProcess
    /\ windows = <<1, 2>>
    /\ pages = [w \in WindowIds |->
                   IF w = 1 THEN page("", 0)
                   ELSE IF w = 2 THEN page("true", 1) ELSE NoPage]

\* the broker on its own: the raw path of the requests is drawn at the start,
\* the folders and the order of the calls are free
InitBroker ==
    /\ InitMain
    /\ InitTree
    /\ InitRenderer
    /\ askPath \in RawPaths

\* the watcher on its own
InitWatcher ==
    /\ InitMain
    /\ InitTree
    /\ InitRenderer
    /\ askPath = <<"/", "a">>

NextWatcher ==
    \/ \E w \in Windows : SetOpenFolder(w, <<"/", "a", "/", "a">>)
           /\ UNCHANGED treeVars
    \/ \E w \in Windows, p \in WatchInputs, started \in BOOLEAN :
           WatchFolder(w, p, started) /\ UNCHANGED treeVars
    \/ \E w \in Windows : UnwatchFolder(w) /\ UNCHANGED treeVars
    \/ \E w \in Windows, evt \in WatchEvents : FsEvent(w, evt)
           /\ UNCHANGED treeVars
    \/ \E t \in timers : TimerFire(t) /\ UNCHANGED treeVars
    \/ Tick /\ UNCHANGED treeVars

NextBroker ==
    \/ \E w \in Windows, p \in FolderInputs : SetOpenFolder(w, p)
           /\ UNCHANGED treeVars
    \/ \E w \in Windows : ReadFile(w, askPath) /\ UNCHANGED treeVars
    \/ \E w \in Windows : WriteFile(w, askPath) /\ UNCHANGED treeVars
    \/ \E w \in Windows : ReadDirectory(w, askPath, NoEntries)
           /\ UNCHANGED treeVars

SpecBroker == InitBroker /\ [][NextBroker]_vars

SpecWatcher == InitWatcher /\ [][NextWatcher]_vars

----------------------------------------------------------------------------
(* Renderer: the specification of the tab registry *)

InitTabs ==
    /\ InitMain
    /\ InitTree
    /\ askPath = Null
    /\ InitRenderer

\* the renderer at startup, with restoreSession waiting for storage.get
InitRestore ==
    /\ InitMain
    /\ InitTree
    /\ askPath = Null
    /\ tabs = <<>>
    /\ activeTabId = 0
    /\ editorModel = 0
    /\ clock = 1
    /\ nextUid = 1
    /\ appOpenFolder = Null
    /\ openOps = EmptyBag
    /\ saveOps = EmptyBag
    /\ saveAll = NoSaveAll
    /\ errorLog = {}
    /\ storage \in Sessions
    /\ restore = [pc |-> "start", session |-> NoSession, i |-> 0,
                 failed |-> {}, isNewWindow |-> ""]

\* the tab commands and openFile, with the clock free
NextTabs ==
    \/ CreateNewFile /\ UNCHANGED treeVars
    \/ \E id \in 1..MaxClock : ActivateTab(id) /\ UNCHANGED treeVars
    \/ \E id \in 1..MaxClock : CloseTab(id) /\ UNCHANGED treeVars
    \/ CloseAllTabs /\ UNCHANGED treeVars
    \/ \E id \in 1..MaxClock : CloseAllTabsExcept(id) /\ UNCHANGED treeVars
    \/ \E f \in OpenFolderInputs : OpenFolder(f) /\ UNCHANGED treeVars
    \/ ClockTick /\ UNCHANGED treeVars
    \/ \E p \in FilePaths : OpenFile(p) /\ UNCHANGED treeVars
    \/ \E p \in FilePaths, success \in BOOLEAN, c \in Contents :
           OpenFileDone(p, success, c) /\ UNCHANGED treeVars

\* startup: the session is restored while the user works with the tabs
NextRestore ==
    \/ RestoreSession /\ UNCHANGED treeVars
    \/ RestoreFolderDone /\ UNCHANGED treeVars
    \/ \E success \in BOOLEAN, c \in Contents : RestoreReadDone(success, c)
           /\ UNCHANGED treeVars
    \/ ClockTick /\ UNCHANGED treeVars
    \/ \E id \in 1..MaxClock : ActivateTab(id) /\ UNCHANGED treeVars
    \/ \E id \in 1..MaxClock : CloseTab(id) /\ UNCHANGED treeVars
    \/ \E c \in Contents : Edit(c) /\ UNCHANGED treeVars

SpecRestore == InitRestore /\ [][NextRestore]_vars

\* a tab was created in the current millisecond
clockUsed == \E i \in 1..Len(tabs) : tabs[i].id = clock

\* fewer than MaxDocs - 1 tab objects have been allocated
fewDocs == nextUid < MaxDocs

\* editing and saveCurrentFile on the documents the user creates, one open
\* at a time
NextSave ==
    \/ tabs = <<>> /\ fewDocs /\ CreateNewFile /\ UNCHANGED treeVars
    \/ clockUsed /\ ClockTick /\ UNCHANGED treeVars
    \/ \E id \in 1..MaxClock : ActivateTab(id) /\ UNCHANGED treeVars
    \/ \E id \in 1..MaxClock : CloseTab(id) /\ UNCHANGED treeVars
    \/ \E c \in Contents : Edit(c) /\ UNCHANGED treeVars
    \/ SaveCurrentFile /\ UNCHANGED treeVars
    \/ \E op \in BagToSet(saveOps), canceled \in BOOLEAN, p \in FilePaths :
           SaveDialogDone(op, canceled, p) /\ UNCHANGED treeVars
    \/ \E op \in BagToSet(saveOps), success \in BOOLEAN :
           SaveWriteDone(op, success) /\ UNCHANGED treeVars

\* editing and saveAllFiles on files the user opens, each requested once at
\* a time, with tab creations at least a millisecond apart
NextSaveAll ==
    \/ clockUsed /\ ClockTick /\ UNCHANGED treeVars
    \/ \E id \in 1..MaxClock : ActivateTab(id) /\ UNCHANGED treeVars
    \/ \E id \in 1..MaxClock : CloseTab(id) /\ UNCHANGED treeVars
    \/ \E c \in Contents : Edit(c) /\ UNCHANGED treeVars
    \/ \E p \in FilePaths : fewDocs /\ ~BagIn(p, openOps) /\ OpenFile(p)
           /\ UNCHANGED treeVars
    \/ \E p \in FilePaths, success \in BOOLEAN :
           ~clockUsed /\ fewDocs /\ OpenFileDone(p, success, "x")
           /\ UNCHANGED treeVars
    \/ SaveAllFiles /\ UNCHANGED treeVars
    \/ \E success \in BOOLEAN : SaveAllWriteDone(success)
           /\ UNCHANGED treeVars

SpecSaveAll == InitTabs /\ [][NextSaveAll]_vars

SpecSave == InitTabs /\ [][NextSave]_vars

SpecTabs == InitTabs /\ [][NextTabs]_vars

----------------------------------------------------------------------------
(* Closing the window *)

\* the user edits new documents and asks to close the window
NextClose ==
    \/ ~destroyed[Win] /\ ~clockUsed /\ fewDocs /\ CreateNewFile
           /\ UNCHANGED treeVars
    \/ \E c \in Contents : ~destroyed[Win] /\ Edit(c) /\ UNCHANGED treeVars
    \/ \E id \in 1..MaxClock :
           ~destroyed[Win] /\ CloseTab(id) /\ UNCHANGED treeVars
    \/ CloseRequested
    \/ RendererDispatch
    \/ QueryTimeout
    \/ \E ok \in BOOLEAN : StateSaved(ok)
    \/ CloseTick

SpecClose == InitTabs /\ [][NextClose]_vars

----------------------------------------------------------------------------
(* The file tree of one window: FileManager, the watcher and the IPC between *)

\* the changes the watcher reports in the file tree specifications: one that
\* is notified and one that is ignored
TreeEvents ==
    {[eventType |-> "change", filename |-> <<"a">>],
     [eventType |-> "change", filename |-> <<".", "a">>]}

InitFolder ==
    /\ InitMain
    /\ InitTree
    /\ InitRenderer
    /\ askPath = Null

\* the user opens one folder after another, while the watched folder changes
NextFolder ==
    \/ \E f \in TreeFolders : FilesOpenFolder(f)
    \/ \E c \in BagToSet(calls) : UnwatchReturned(c)
    \/ \E c \in BagToSet(calls) : GitDone(c)
    \/ \E c \in BagToSet(calls) : TreeDone(c)
    \/ \E c \in BagToSet(calls) : WatchReturned(c)
    \/ MainHandle
    \/ \E evt \in TreeEvents : TreeFsEvent(evt)
    \/ \E t \in timers : Notify(t)
    \/ TreeTick

SpecFolder == InitFolder /\ [][NextFolder]_vars

\* the suppression of the watcher's notifications while createFile writes,
\* in a folder the user opens once
NextSuppress ==
    \/ appOpenFolder = Null /\ FilesOpenFolder(FolderA)
    \/ \E c \in BagToSet(calls) : GitDone(c)
    \/ \E c \in BagToSet(calls) : TreeDone(c)
    \/ \E c \in BagToSet(calls) : WatchReturned(c)
    \/ appOpenFolder # Null /\ CreateFile(appOpenFolder)
    \/ \E c \in BagToSet(calls) : CreateWriteReturned(c)
    \/ MainHandle
    \/ \E evt \in TreeEvents : TreeFsEvent(evt)
    \/ \E t \in timers : Notify(t)
    \/ SuppressTimerFire
    \/ TreeTick
    \/ \E p \in FilePaths, success \in BOOLEAN :
           OpenFileDone(p, success, "x") /\ UNCHANGED treeVars

SpecSuppress == InitFolder /\ [][NextSuppress]_vars

\* the writes of the window itself in the folder it watches: createFile,
\* called until it has opened a document, and saveCurrentFile of the document
NextSelf ==
    \/ appOpenFolder = Null /\ FilesOpenFolder(FolderA)
    \/ \E c \in BagToSet(calls) : GitDone(c)
    \/ \E c \in BagToSet(calls) : TreeDone(c)
    \/ \E c \in BagToSet(calls) : WatchReturned(c)
    \/ appOpenFolder # Null /\ nextUid = 1 /\ calls = EmptyBag /\ openOps = EmptyBag
           /\ CreateFile(appOpenFolder)
    \/ \E c \in BagToSet(calls) : CreateWriteReturned(c)
    \/ MainHandle
    \/ WriteEvent
    \/ \E t \in timers : Notify(t)
    \/ SuppressTimerFire
    \/ TreeTick
    \/ \E p \in FilePaths, success \in BOOLEAN :
           OpenFileDone(p, success, "") /\ UNCHANGED treeVars
    \/ \E c \in Contents : Edit(c) /\ UNCHANGED treeVars
    \/ SaveSend
    \/ \E op \in BagToSet(saveOps), c \in BagToSet(calls) : SaveReturned(op, c)

SpecSelf == InitFolder /\ [][NextSelf]_vars

\* the renders of the file tree of a folder the user opens again and again,
\* with the notifications of the watcher arriving at any moment
NextRender ==
    \/ FilesOpenFolder(FolderA)
    \/ \E c \in BagToSet(calls) : UnwatchReturned(c)
    \/ \E c \in BagToSet(calls) : GitDone(c)
    \/ \E c \in BagToSet(calls) : TreeDone(c)
    \/ \E c \in BagToSet(calls) : WatchReturned(c)
    \/ appOpenFolder # Null /\ CreateFile(appOpenFolder)
    \/ \E c \in BagToSet(calls) : CreateWriteReturned(c)
    \/ MainHandle
    \/ FolderChanged
    \/ SuppressTimerFire
    \/ TreeTick
    \/ \E p \in FilePaths, success \in BOOLEAN :
           OpenFileDone(p, success, "x") /\ UNCHANGED treeVars

SpecRender == InitFolder /\ [][NextRender]_vars

----------------------------------------------------------------------------
(* C1 *)

\* r is f itself or lies below f in the directory hierarchy
IsWithin(r, f) ==
    LET rs == Segments(r)
        fs == Segments(f)
    IN  Len(fs) <= Len(rs) /\ SubSeq(rs, 1, Len(fs)) = fs

FileOps == {"read-file", "write-file", "read-directory"}

----------------------------------------------------------------------------
(* C9 *)

\* C9: a burst of N >= 1 accepted events, each less than 300 ms after the one
\* before, of a watch that stays active, is answered by exactly one
\* folder-changed message, sent 300 ms after the burst's last event and carrying
\* that event's type and filename; nothing is sent before.
C9_Debounce ==
    \A w \in Windows :
        LET b == burst[w] IN
        (b.n >= 1 /\ ~b.cancelled /\ ~destroyed[w]) =>
            /\ b.noted <= 1
            /\ b.age < DebounceMs => b.noted = 0
            /\ b.age > DebounceMs => b.noted = 1
            /\ b.noted = 1 => /\ lastSent[w].fromLive
                              /\ lastSent[w].evt = b.evt
                              /\ lastSent[w].delay = DebounceMs

\* a burst of two events or more has been notified
C9_Witness ==
    \E w \in Windows :
        /\ burst[w].n >= 2 /\ ~burst[w].cancelled
        /\ burst[w].noted = 1
        /\ lastSent[w].evt = burst[w].evt

----------------------------------------------------------------------------
(* C10 *)

mainState == <<allowedFolders, watchers, timers, destroyed, lastSent, fsWatchers>>

\* C10: a folder-changed message is only ever sent by the timer of the entry
\* that is in the watchers table, so none is sent for a subscription that
\* unwatch-folder has cancelled, pending timer or not; and unwatch-folder
\* without an active watch succeeds and changes nothing.
C10_Unwatch ==
    /\ [](\A w \in Windows : lastSent[w].fromLive)
    /\ [][\A w \in Windows :
              (UnwatchFolder(w) /\ ~watchers[w].on) =>
                  (UNCHANGED mainState /\ reply'.success)]_vars

\* unwatch-folder came while the debounce timer was pending; the delay has
\* passed since and nothing was sent
C10_Witness ==
    \E w \in Windows :
        /\ reply.op = "unwatch-folder" /\ reply.sender = w
        /\ burst[w].cancelled /\ burst[w].noted = 0
        /\ burst[w].age > DebounceMs
        /\ timers = {}

----------------------------------------------------------------------------
(* C11 *)

\* the pending debounce timers whose callback sends to window w
timersOf(w) == {t \in timers : t.to = w}

\* C11: each window has at most one open filesystem watcher and at most one
\* pending debounce timer, and they are the ones its entry in the watchers
\* table records; so a watch-folder request leaves nothing of the previous
\* subscription behind.
C11_OneWatcher ==
    \A w \in Windows :
        /\ fsWatchers[w] = (IF watchers[w].on THEN 1 ELSE 0)
        /\ Cardinality(timersOf(w)) <= 1
        /\ \A t \in timersOf(w) :
               /\ watchers[w].on /\ watchers[w].debounceTimer # 0
               /\ t.cur /\ ~t.orphan

\* watch-folder came while the previous watcher's timer was pending: one
\* watcher is open and no timer is left
C11_Witness ==
    \E w \in Windows :
        /\ reply.op = "watch-folder" /\ reply.sender = w /\ reply.success
        /\ burst[w].cancelled /\ burst[w].noted = 0 /\ burst[w].age = 0
        /\ watchers[w].on /\ fsWatchers[w] = 1
        /\ timersOf(w) = {}

----------------------------------------------------------------------------
(* C2 - C8: the tab registry *)

\* C2: the active-document id is null exactly when the document list is
\* empty, and otherwise it identifies exactly one document of the list.
C2_ActiveTab ==
    /\ (activeTabId = 0) <=> (tabs = <<>>)
    /\ activeTabId # 0 =>
           Cardinality({i \in 1..Len(tabs) : tabs[i].id = activeTabId}) = 1

\* C3: any two documents of the list have distinct identifiers, also when
\* they were created with no clock advance between the two createTab calls.
C3_DistinctIds ==
    \A i, j \in 1..Len(tabs) : i # j => tabs[i].id # tabs[j].id

\* C4: no two open documents share the same non-null path, whatever the
\* interleaving of the openFile requests and their read results.
C4_OnePerPath ==
    \A i, j \in 1..Len(tabs) :
        (i # j /\ tabs[i].path # Null) => tabs[i].path # tabs[j].path

\* C5: a document with a path whose file has been read or written and whose
\* dirty flag is false holds in memory the content last read from or
\* written to its file (the direction of the equivalence that the claim
\* singles out: the flag is not left false over unsaved edits).
C5_CleanMeansSynced ==
    \A i \in 1..Len(tabs) :
        (tabs[i].path # Null /\ tabs[i].synced # NoFile /\ ~tabs[i].modified)
            => tabs[i].model = tabs[i].synced

\* the step handles the successful write-file result of a write for the tab
\* object u whose target was path
writeSucceeded(u, path) ==
    \/ \E op \in BagToSet(saveOps) :
           /\ op.uid = u
           /\ op.path = path
           /\ SaveWriteDone(op, TRUE)
    \/ /\ saveAll.uid = u
       /\ saveAll.path = path
       /\ SaveAllWriteDone(TRUE)

\* C6: a document's dirty flag goes from true to false only in the step that
\* handles a successful write-file result whose target was the document's
\* current path.
C6_ClearedByWrite ==
    [][\A u \in 1..MaxDocs :
          LET i == findByUid(tabs, u)
              j == findByUid(tabs', u)
          IN  (i # 0 /\ j # 0 /\ tabs[i].modified /\ ~tabs'[j].modified)
                  => writeSucceeded(u, tabs[i].path)]_vars

\* the report a failed save would leave
SaveFailed == "Failed to save file"

\* C7: the step that handles a failed write of saveCurrentFile leaves the
\* document's dirty flag and snapshot unchanged and reports the error; the
\* step that handles a successful one clears the flag and stores the written
\* content as the snapshot.
C7_SaveOutcome ==
    [][\A op \in BagToSet(saveOps) :
          /\ (SaveWriteDone(op, FALSE) /\ ~SaveWriteDone(op, TRUE))
                 => (tabs' = tabs /\ SaveFailed \in errorLog')
          /\ (SaveWriteDone(op, TRUE) /\ findByUid(tabs', op.uid) # 0)
                 => LET t == tabs'[findByUid(tabs', op.uid)]
                    IN  ~t.modified /\ t.content = op.content]_vars

\* C8: when saveAllFiles ends, every document that was dirty with a path when
\* it began and is still open has had its write sent, whatever became of the
\* writes before it, and every open document whose write failed is still
\* dirty.
C8_SaveAll ==
    [][(saveAll.pc = "write" /\ saveAll'.pc = "idle") =>
          LET failed == IF SaveAllWriteDone(FALSE) /\ ~SaveAllWriteDone(TRUE)
                        THEN saveAll.failed \cup {saveAll.uid}
                        ELSE saveAll.failed
          IN  \A u \in saveAll.start \cup failed :
                  LET j == findByUid(tabs', u)
                  IN  j # 0 => /\ u \in saveAll.issued
                               /\ u \in failed => tabs'[j].modified]_vars

----------------------------------------------------------------------------
(* C13 *)

\* C13: when openFolder(F) has closed its tabs, every document still open has
\* a path that is F itself or lies below F in the directory hierarchy;
\* documents without a path and documents outside F, also those in a sibling
\* directory whose name begins with F's name, are gone.
C13_OnlyInsideFolder ==
    [][\A f \in OpenFolderInputs :
          OpenFolder(f) =>
              \A i \in 1..Len(tabs') :
                  tabs'[i].path # Null /\ IsWithin(tabs'[i].path, f)]_vars

----------------------------------------------------------------------------
(* C14 *)

\* the tab objects of a list, in list order
uidsOf(ts) == [k \in 1..Len(ts) |-> ts[k].uid]

\* C14: closing the active document at position i of n documents removes it
\* from the list and makes active the document that was next to it: the one
\* after it, or the one before it when it was the last; with n = 1 no
\* document is active afterwards.
C14_CloseActive ==
    [][\A id \in 1..MaxClock :
          LET i == findById(tabs, id)
              n == Len(tabs)
          IN  (CloseTab(id) /\ id = activeTabId /\ i # 0) =>
                  /\ uidsOf(tabs') = uidsOf(removeAt(tabs, i))
                  /\ IF n = 1 THEN activeTabId' = 0
                     ELSE LET next == IF i < n THEN tabs[i + 1]
                                      ELSE tabs[n - 1]
                          IN  /\ activeTabId' = next.id
                              /\ editorModel' = next.uid]_vars

----------------------------------------------------------------------------
(* C16 *)

\* the calls that are executing renderFileTree
rendering == {c \in BagToSet(calls) : c.pc = "tree"}

\* how many executions of renderFileTree are in progress
renders ==
    LET RECURSIVE sum(_)
        sum(S) == IF S = {} THEN 0
                  ELSE LET c == CHOOSE x \in S : TRUE
                       IN  CopiesIn(c, calls) + sum(S \ {c})
    IN  sum(rendering)

\* C16: at most one execution of renderFileTree is in progress in the window,
\* so a render started by openFolder or createFile never runs at the same
\* time as one started by refreshFileTree
C16_OneRender == renders <= 1

----------------------------------------------------------------------------
(* C15 *)

\* a render of refreshFileTree is in progress
refreshing == \E c \in BagToSet(calls) : c.kind = "refresh"

\* the listener of folder-changed calls refreshFileTree in this step
requested == FolderChanged /\ ~suppressFlag /\ appOpenFolder # Null

\* C15: a refresh requested while a render of refreshFileTree is in progress
\* starts no render at once; when the render ends, exactly one follow-up
\* render starts if one or more requests came during it, and none otherwise
C15_Coalesce ==
    [][/\ (requested /\ refreshing) =>
              BagCardinality(calls') = BagCardinality(calls)
       /\ \A c \in BagToSet(calls) :
              (TreeDone(c) /\ c.kind = "refresh") =>
                  calls' = IF c.asked >= 1
                           THEN addOp(removeOp(calls, c),
                                      call("refresh", "git", Null))
                           ELSE removeOp(calls, c)]_vars

----------------------------------------------------------------------------
(* C18 *)

\* suppressWatcher has been called
suppressed == suppressAge # NoTimer

\* the flag is set for the 500 ms after the most recent call, and only then
flagFollowsCall ==
    /\ suppressFlag => (suppressed /\ suppressAge <= SuppressMs)
    /\ (suppressed /\ suppressAge < SuppressMs) => suppressFlag

\* folder-changed reaches the listener in this step
notified == ~destroyed[Win] /\ \E t \in timers : Notify(t)

\* refreshFileTree is called in this step: a render starts, or the request
\* is flagged for the render in progress
refreshCalled ==
    IF isRendering
    THEN pendingRefresh' /\ BagCardinality(calls') = BagCardinality(calls)
    ELSE /\ isRendering'
         /\ BagCardinality(calls') = BagCardinality(calls) + 1
         /\ BagIn(call("refresh", "git", Null), calls')

----------------------------------------------------------------------------
(* C17 *)

\* C17: a folder-changed notification caused by a write of the window itself
\* arrives while the suppression flag is set and starts no tree refresh (in
\* SpecSelf the window's own writes are the only changes of the folder)
C17_OwnWritesSuppressed ==
    [][notified =>
          /\ suppressFlag
          /\ UNCHANGED <<isRendering, pendingRefresh, calls>>]_vars

----------------------------------------------------------------------------
(* C12 *)

\* no openFolder call is in progress
switched == calls = EmptyBag

\* the main process establishes a watch in this step
watchEstablished ==
    /\ ipc # <<>>
    /\ Head(ipc).op = "watch-folder"
    /\ MainHandle
    /\ reply'.success

----------------------------------------------------------------------------
(* C19 *)

\* the window is destroyed in this step
destroyedNow == ~destroyed[Win] /\ destroyed'[Win]

\* C19: a window that had a dirty document when its close was requested is
\* not destroyed before the user has chosen Save All or Don't Save in the
\* confirmation (after Cancel it is not destroyed at all)
C19_ChoiceBeforeDestroy ==
    [][(destroyedNow /\ closeRun.dirty) =>
          closeRun.choice \in {"saveAll", "discard"}]_vars

----------------------------------------------------------------------------
(* C20 *)

\* a run of the close handler ends in this step
runEnds == closePc # "idle" /\ closePc' = "idle"

\* C20: a run of the close handler ends with the window destroyed or with
\* the user's Cancel, and in no other way
C20_CloseEnds ==
    [][runEnds => (destroyed'[Win] \/ closeRun'.end = "cancel")]_vars

----------------------------------------------------------------------------
(* Session persistence *)

\* the step changes the document list (which documents, in which order, with
\* which paths) or the active document
structureChanged ==
    \/ [i \in 1..Len(tabs') |-> <<tabs'[i].uid, tabs'[i].path>>]
           # [i \in 1..Len(tabs) |-> <<tabs[i].uid, tabs[i].path>>]
    \/ activeTabId' # activeTabId

\* C21: every step of a tab command (new file, open file, close, activate)
\* that changes the document list or the active document leaves the session
\* entry of the storage equal to the snapshot of the state it produces: same
\* open folder, same documents in the same order, same active path.  (The
\* steps that set the open folder are left out here: openFolder saves the
\* session after its renderFileTree has returned.)
C21_SessionSaved ==
    [][(structureChanged /\ appOpenFolder' = appOpenFolder)
          => storage' = snapshot(RS', appOpenFolder')]_vars

\* the documents of the registry states whose snapshots are restored
MaxRecorded == 2

\* an open document by its path and text, as the user left it
docOf(i, path, text) ==
    [uid |-> i, id |-> i, path |-> path, content |-> text, modified |-> FALSE,
     model |-> text, synced |-> IF path = Null THEN NoFile ELSE text]

\* the registry states with up to MaxRecorded documents, created a
\* millisecond apart, no file open twice, and any one of them active
Registries ==
    {[tabs |-> [i \in 1..n |-> docOf(i, ps[i], cs[i])],
      activeTabId |-> k, editorModel |-> k] :
        n \in 0..MaxRecorded, k \in 0..MaxRecorded,
        ps \in [1..MaxRecorded -> {Null} \cup FilePaths],
        cs \in [1..MaxRecorded -> Contents]}

wellFormed(R) ==
    /\ R.activeTabId = 0 <=> R.tabs = <<>>
    /\ R.activeTabId <= Len(R.tabs)
    /\ \A i, j \in 1..Len(R.tabs) :
           (i # j /\ R.tabs[i].path # Null) => R.tabs[i].path # R.tabs[j].path

\* saveSession in every such state, with and without an open folder
Snapshots ==
    {snapshot(R, f) : R \in {Q \in Registries : wellFormed(Q)},
                      f \in {Null, FolderA}}

\* the renderer at startup with one of the snapshots stored
InitRoundTrip ==
    /\ InitMain
    /\ InitTree
    /\ askPath = Null
    /\ tabs = <<>>
    /\ activeTabId = 0
    /\ editorModel = 0
    /\ clock = 1
    /\ nextUid = 1
    /\ appOpenFolder = Null
    /\ openOps = EmptyBag
    /\ saveOps = EmptyBag
    /\ saveAll = NoSaveAll
    /\ errorLog = {}
    /\ storage \in Snapshots
    /\ restore = [pc |-> "start", session |-> NoSession, i |-> 0,
                 failed |-> {}, isNewWindow |-> ""]

\* restoreSession on its own, each read succeeding or failing
NextRoundTrip ==
    \/ RestoreSession /\ UNCHANGED treeVars
    \/ RestoreFolderDone /\ UNCHANGED treeVars
    \/ \E success \in BOOLEAN, c \in Contents :
           RestoreReadDone(success, c) /\ UNCHANGED treeVars
    \/ ClockTick /\ UNCHANGED treeVars

SpecRoundTrip == InitRoundTrip /\ [][NextRoundTrip]_vars

\* the paths of the open files, the path of the active document
openPaths(ts) == {ts[i].path : i \in 1..Len(ts)} \ {Null}
recordedPaths(session) ==
    {session.tabs[i].path : i \in 1..Len(session.tabs)} \ {Null}
activePath(R) ==
    LET k == IF R.activeTabId = 0 THEN 0 ELSE findById(R.tabs, R.activeTabId)
    IN  IF k = 0 THEN Null ELSE R.tabs[k].path

\* C22: when restoreSession has ended on a fresh registry with every
\* recorded file readable, the open paths are the recorded paths, the path of
\* the active document is the recorded active path, and every recorded
\* unsaved document (null path), empty ones included, has a document without
\* path that holds its content.
C22_RoundTrip ==
    (restore.pc = "done" /\ restore.failed = {}) =>
        /\ openPaths(tabs) = recordedPaths(restore.session)
        /\ activePath(RS) = restore.session.activeTabPath
        /\ \A i \in 1..Len(restore.session.tabs) :
               restore.session.tabs[i].path = Null =>
                   \E j \in 1..Len(tabs) :
                       /\ tabs[j].path = Null
                       /\ tabs[j].model = restore.session.tabs[i].content

\* the entries of the session that restoreSession is to bring back: the
\* unsaved ones and those whose read succeeded, in the order of the session
toRestore(session, failed) ==
    LET kept(i) == session.tabs[i].path = Null \/ i \notin failed
        RECURSIVE from(_)
        from(i) == IF i > Len(session.tabs) THEN <<>>
                   ELSE IF kept(i) THEN <<session.tabs[i].path>> \o from(i + 1)
                   ELSE from(i + 1)
    IN  from(1)

\* C23: when restoreSession has ended, the paths of the documents, in list
\* order, are those of the recorded entries whose read succeeded and of the
\* recorded unsaved entries (null), in the order of the session.
C23_FailedReadSkipped ==
    restore.pc = "done" =>
        [i \in 1..Len(tabs) |-> tabs[i].path]
            = toRestore(restore.session, restore.failed)

----------------------------------------------------------------------------
(* Windows and the session *)

\* the app at startup: the first window has been created and its page
\* loaded, and the storage holds the session of an earlier run
InitWindows ==
    /\ InitProcess
    /\ InitTree
    /\ askPath = Null
    /\ windows = <<1>>
    /\ pages = [w \in WindowIds |-> IF w = 1 THEN page("", 0) ELSE NoPage]
    /\ tabs = <<>>
    /\ activeTabId = 0
    /\ editorModel = 0
    /\ clock = 1
    /\ nextUid = 1
    /\ appOpenFolder = Null
    /\ openOps = EmptyBag
    /\ saveOps = EmptyBag
    /\ saveAll = NoSaveAll
    /\ errorLog = {}
    /\ storage \in Snapshots
    /\ restore = [pc |-> "start", session |-> NoSession, i |-> 0,
                 failed |-> {}, isNewWindow |-> ""]

\* windows are opened and closed while the page of the newest one starts
NextWindows ==
    \/ CreateWindow /\ UNCHANGED treeVars
    \/ \E w \in WindowIds : WinClosed(w) /\ UNCHANGED treeVars
    \/ RestoreSession /\ UNCHANGED treeVars
    \/ RestoreFolderDone /\ UNCHANGED treeVars
    \/ \E success \in BOOLEAN, c \in Contents :
           RestoreReadDone(success, c) /\ UNCHANGED treeVars

SpecWindows == InitWindows /\ [][NextWindows]_vars

\* the window created last
newest == CHOOSE w \in WindowIds :
              /\ pages[w] # NoPage
              /\ \A v \in WindowIds : pages[v] # NoPage => v <= w

----------------------------------------------------------------------------
(* The state of one window and the calls of another *)

\* the watcher calls of two windows, their folders and the close of a window
NextPerWindow ==
    \/ \E w \in Windows, p \in OpenFolderInputs : SetOpenFolder(w, p)
           /\ UNCHANGED treeVars
    \/ \E w \in Windows, p \in WatchInputs, started \in BOOLEAN :
           WatchFolder(w, p, started) /\ UNCHANGED treeVars
    \/ \E w \in Windows : UnwatchFolder(w) /\ UNCHANGED treeVars
    \/ \E w \in Windows : WinDestroy(w) /\ UNCHANGED <<closeVars, treeVars>>
    \/ \E w \in Windows, evt \in TreeEvents : FsEvent(w, evt)
           /\ UNCHANGED treeVars
    \/ \E t \in timers : TimerFire(t) /\ UNCHANGED treeVars
    \/ Tick /\ UNCHANGED treeVars

SpecPerWindow == InitWatcher /\ [][NextPerWindow]_vars

\* the step is a set-open-folder, watch-folder or unwatch-folder call of
\* window a, or the close of window a
callOf(a) ==
    \/ \E p \in OpenFolderInputs : SetOpenFolder(a, p)
    \/ \E p \in WatchInputs, started \in BOOLEAN : WatchFolder(a, p, started)
    \/ UnwatchFolder(a)
    \/ WinDestroy(a)

\* C25: a set-open-folder, watch-folder, unwatch-folder or close of window a
\* leaves the allowed folder, the watcher entry, the open watchers and the
\* pending debounce timers of another window b unchanged, and the debounce
\* callback of b's watcher sends folder-changed to b only.
C25_PerWindow ==
    [][\A a, b \in Windows :
          a # b =>
              /\ callOf(a) =>
                     /\ allowedFolders'[b] = allowedFolders[b]
                     /\ watchers'[b] = watchers[b]
                     /\ fsWatchers'[b] = fsWatchers[b]
                     /\ timersOf(b)' = timersOf(b)
              /\ \A t \in timersOf(b) :
                     TimerFire(t) => lastSent'[a] = lastSent[a]]_vars

\* window 1 has just unwatched while window 2 has an allowed folder, a
\* watcher and a pending debounce timer
C25_Witness ==
    /\ reply.op = "unwatch-folder"
    /\ reply.sender = 1
    /\ allowedFolders[2] # Null
    /\ watchers[2].on
    /\ timersOf(2) # {}

----------------------------------------------------------------------------
(* The results of the file broker *)

BrokerOps ==
    {"read-file", "write-file", "read-directory", "watch-folder",
     "unwatch-folder"}

\* the path arguments of the calls: inside and outside the folder that may be
\* open, and a value that is not a string
BrokerInputs == {<<"/", "a">>, <<"/", "a", "a">>, NotAString}

\* the calls of the two windows in any order, every I/O succeeding or failing
NextOps ==
    \/ \E w \in Windows : SetOpenFolder(w, <<"/", "a">>) /\ UNCHANGED treeVars
    \/ \E w \in Windows, p \in BrokerInputs :
           ReadFile(w, p) /\ UNCHANGED treeVars
    \/ \E w \in Windows, p \in BrokerInputs :
           WriteFile(w, p) /\ UNCHANGED treeVars
    \/ \E w \in Windows, p \in BrokerInputs :
           ReadDirectory(w, p, NoEntries) /\ UNCHANGED treeVars
    \/ \E w \in Windows, p \in BrokerInputs, started \in BOOLEAN :
           WatchFolder(w, p, started) /\ UNCHANGED treeVars
    \/ \E w \in Windows : UnwatchFolder(w) /\ UNCHANGED treeVars

SpecOps == InitWatcher /\ [][NextOps]_vars

\* C26: the call of a file broker operation handled last has returned a
\* tagged result and has not thrown: success without an error, or failure
\* with one.
C26_TaggedResult ==
    reply.op \in BrokerOps =>
        /\ ~reply.thrown
        /\ reply.success \in BOOLEAN
        /\ reply.success <=> reply.error = NoError

\* a read whose I/O failed, and a watch-folder whose path was not a string,
\* have returned their failure
C26_Witness ==
    /\ reply.op \in {"read-file", "watch-folder"}
    /\ reply.error \in {IoError, InvalidArg}
    /\ ~reply.success
    /\ ~reply.thrown

----------------------------------------------------------------------------
(* Expanding and collapsing a directory of the file tree *)

\* the clicks on the directory of a folder the user opens once, and the files
\* the user creates in the directory
NextToggle ==
    \/ appOpenFolder = Null /\ FilesOpenFolder(FolderA)
    \/ \E c \in BagToSet(calls) : GitDone(c)
    \/ \E c \in BagToSet(calls) : TreeDone(c)
    \/ \E c \in BagToSet(calls) : WatchReturned(c)
    \/ container # <<>> /\ calls = EmptyBag /\ CreateFile(FolderInA)
    \/ \E c \in BagToSet(calls) : CreateWriteReturned(c)
    \/ MainHandle
    \/ SuppressTimerFire
    \/ \E success \in BOOLEAN :
           OpenFileDone(childPath(FolderInA), success, "")
               /\ UNCHANGED treeVars
    \/ \E i \in 1..MaxCalls : Click(i)
    \/ \E i \in 1..MaxCalls : ClickLoaded(i)
    \/ TreeTick

SpecToggle == InitFolder /\ [][NextToggle]_vars

\* the click on the i-th tree collapses its directory
collapses(i) == Click(i) /\ container[i].expanded

\* C28: collapsing a directory that a click expanded returns the expanded
\* folders to what they were before it was expanded, and the wrapper of a
\* directory never holds more than one children list, whatever the clicks
\* that come while its listing is loading
C28_ToggleTwice ==
    /\ [][\A i \in 1..MaxCalls :
              collapses(i) /\ container[i].before # <<>>
                  => expandedFolders' = container[i].before[1]]_vars
    /\ [](\A i \in 1..Len(container) : container[i].lists <= 1)

----------------------------------------------------------------------------
(* The expanded directories across the refreshes of the file tree *)

\* the refreshes of the tree of a folder the user opens again and again,
\* while the user expands and collapses its directory and the directory is
\* deleted and created again
NextExpand ==
    \/ FilesOpenFolder(FolderA)
    \/ \E c \in BagToSet(calls) : UnwatchReturned(c)
    \/ \E c \in BagToSet(calls) : GitDone(c)
    \/ \E c \in BagToSet(calls) : TreeDone(c)
    \/ \E c \in BagToSet(calls) : WatchReturned(c)
    \/ MainHandle
    \/ FolderChanged
    \/ DirChange
    \/ \E i \in 1..MaxCalls : Click(i)
    \/ \E i \in 1..MaxCalls : ClickLoaded(i)

SpecExpand == InitFolder /\ [][NextExpand]_vars

\* the render of the call c appends its tree in this step
appends(c) == TreeDone(c) /\ container' # container

\* the tree appended in this step shows the directory expanded, with a
\* children list
showsExpanded(dir) ==
    LET it == container'[Len(container')]
    IN  it.dir = dir /\ it.expanded /\ it.lists >= 1

\* C27: refreshFileTree and renderFileTree leave the expanded folders as they
\* are, and the tree a refresh appends shows expanded, with its children,
\* the directory that was shown expanded when the refresh emptied the
\* container, if the directory still exists and no click came in between
C27_ExpandedKept ==
    [][/\ FolderChanged => expandedFolders' = expandedFolders
       /\ \A c \in BagToSet(calls) :
              /\ GitDone(c) \/ TreeDone(c)
                     => expandedFolders' = expandedFolders
              /\ appends(c) /\ c.kind = "refresh" /\ c.was
                     /\ dirIn(c.root) \in dirs
                     => showsExpanded(dirIn(c.root))]_vars

----------------------------------------------------------------------------
(* Creating and closing the only document *)

\* the registry holds one document and nothing else, as createTab(path, "",
\* true) leaves a registry that had no documents
onlyNewTab ==
    /\ Len(tabs) = 1
    /\ tabs[1].path = Null
    /\ tabs[1].content = "" /\ tabs[1].model = "" /\ ~tabs[1].modified
    /\ activeTabId = tabs[1].id
    /\ editorModel = tabs[1].uid

\* C29: closing the unsaved document that createTab(path, "", true) added to
\* a registry without documents leaves no document and no active document
C29_CreateThenClose ==
    [][onlyNewTab /\ CloseTab(tabs[1].id)
           => tabs' = <<>> /\ activeTabId' = 0]_vars

\* the registry is empty again after its only document was closed, and the
\* session records it
C29_Witness ==
    /\ tabs = <<>>
    /\ activeTabId = 0
    /\ nextUid = 2
    /\ openOps = EmptyBag
    /\ storage = sessionOf(Null, <<>>, Null)

----------------------------------------------------------------------------
(* The order of the children read-directory returns *)

\* read-directory of one folder, whatever it holds and whatever folder the
\* window has opened
NextList ==
    \/ \E p \in FolderInputs : SetOpenFolder(Win, p) /\ UNCHANGED treeVars
    \/ \E entries \in Listings :
           ReadDirectory(Win, askPath, entries) /\ UNCHANGED treeVars

SpecList == InitWatcher /\ [][NextList]_vars

\* the UTF-16 code unit of a character
codeUnit(ch) == IF ch = "A" THEN 65 ELSE IF ch = "B" THEN 66 ELSE 97

\* the ordinal comparison of two names: code unit by code unit
ordinalCompare(x, y) ==
    seqCompare([i \in 1..Len(x) |-> codeUnit(x[i])],
               [i \in 1..Len(y) |-> codeUnit(y[i])])

\* the reply of read-directory lists every directory before every file
directoriesFirst ==
    \A i, j \in 1..Len(reply.items) :
        i < j => ~(~reply.items[i].isDirectory /\ reply.items[j].isDirectory)

\* C30, as stated: the children come with every directory before every file
\* and, among the directories and among the files, in ascending ordinal
\* order of their names
C30_OrdinalOrder ==
    reply.op = "read-directory" /\ reply.success =>
        /\ directoriesFirst
        /\ \A i, j \in 1..Len(reply.items) :
               i < j /\ reply.items[i].isDirectory = reply.items[j].isDirectory
                   => ordinalCompare(reply.items[i].name,
                                     reply.items[j].name) < 0

\* C30, amended: the children come with every directory before every file
\* and, among the directories and among the files, in ascending order of
\* their names under localeCompare
C30_LocaleOrder ==
    reply.op = "read-directory" /\ reply.success =>
        /\ directoriesFirst
        /\ \A i, j \in 1..Len(reply.items) :
               i < j /\ reply.items[i].isDirectory = reply.items[j].isDirectory
                   => localeCompare(reply.items[i].name,
                                    reply.items[j].name) < 0

\* read-directory has returned a file and a directory whose name comes after
\* the name of the file
C30_Witness ==
    /\ reply.op = "read-directory" /\ reply.success
    /\ Len(reply.items) = 2
    /\ reply.items[1].isDirectory /\ ~reply.items[2].isDirectory
    /\ localeCompare(reply.items[2].name, reply.items[1].name) < 0

----------------------------------------------------------------------------
(* The events the watch callback skips *)

\* the events of one watched folder: a file, a hidden file, a file in a .git
\* directory, a file in a .github directory of a subfolder, and an event
\* without a filename
FilterEvents ==
    {[eventType |-> "change", filename |-> <<"a">>],
     [eventType |-> "change", filename |-> <<".", "a">>],
     [eventType |-> "change", filename |-> DotGit \o <<"/", "a">>],
     [eventType |-> "change",
      filename |-> <<"a", "/">> \o DotGit \o <<"h", "u", "b">>],
     [eventType |-> "rename", filename |-> Null]}

NextFilter ==
    \/ \E p \in WatchInputs, started \in BOOLEAN :
           WatchFolder(Win, p, started) /\ UNCHANGED treeVars
    \/ UnwatchFolder(Win) /\ UNCHANGED treeVars
    \/ \E evt \in FilterEvents : FsEvent(Win, evt) /\ UNCHANGED treeVars
    \/ \E t \in timers : TimerFire(t) /\ UNCHANGED treeVars
    \/ Tick /\ UNCHANGED treeVars

SpecFilter == InitWatcher /\ [][NextFilter]_vars

\* the filename starts with a dot, or one of its segments is an ignore-name
toDiscard(filename) ==
    /\ filename # Null
    /\ \/ StartsWith(filename, <<".">>)
       \/ \E i \in 1..Len(Segments(filename)) :
              Segments(filename)[i] \in {NodeModules, DotGit, PyCache}

\* the watcher of window w is live and its callback can run
live(w) == watching(w) /\ ~timerDue

\* the debounce timer of window w is started for the event in the timers ts
startedIn(ts, w, evt) ==
    \E t \in ts :
        t.to = w /\ t.evt = evt /\ t.left = DebounceMs /\ t.cur /\ ~t.orphan

\* C31: an event whose filename starts with a dot or has a segment equal to
\* .git, node_modules or __pycache__ leaves the pending timers as they are,
\* and every other event starts the debounce timer
C31_FilterExact ==
    \A evt \in FilterEvents :
        live(Win) =>
            IF toDiscard(evt.filename)
            THEN watchCallback(Win, evt) = timers
            ELSE startedIn(watchCallback(Win, evt), Win, evt)

----------------------------------------------------------------------------
(* The path of an open document *)

\* C32: a document that has a path and stays open keeps that path in every
\* step
C32_PathKept ==
    [][\A i \in 1..Len(tabs), j \in 1..Len(tabs') :
           tabs[i].uid = tabs'[j].uid /\ tabs[i].path # Null
               => tabs'[j].path = tabs[i].path]_vars

----------------------------------------------------------------------------
(* A watcher that reports an error *)

\* the windows watch a folder whose watcher may fail at any moment
NextError ==
    \/ \E w \in Windows, p \in WatchInputs, started \in BOOLEAN :
           WatchFolder(w, p, started) /\ UNCHANGED treeVars
    \/ \E w \in Windows : UnwatchFolder(w) /\ UNCHANGED treeVars
    \/ \E w \in Windows, evt \in TreeEvents :
           FsEvent(w, evt) /\ UNCHANGED treeVars
    \/ \E w \in Windows : WatcherError(w) /\ UNCHANGED treeVars
    \/ \E t \in timers : TimerFire(t) /\ UNCHANGED treeVars
    \/ Tick /\ UNCHANGED treeVars

SpecError == InitWatcher /\ [][NextError]_vars

\* the step is a watch-folder call of window w
watchCall(w) ==
    \E p \in WatchInputs, started \in BOOLEAN : WatchFolder(w, p, started)

\* the pending timers of the subscription of window w
pendingOf(ts, w) == {t \in ts : t.to = w /\ ~t.orphan}

----------------------------------------------------------------------------
(* C34 *)

\* C34: whenever no openFolder call is in progress and the renderer's
\* isWatching flag is true, the main process holds a watcher for the window
\* on exactly the folder that is open in the renderer, however two openFolder
\* calls overlap
C34_WatchesOpenFolder ==
    (switched /\ isWatching) =>
        /\ watchers[Win].on
        /\ watchers[Win].folder = appOpenFolder

----------------------------------------------------------------------------
(* C35 *)

\* the close handler with the answers on unsaved-check-<id> and
\* save-all-done-<id> as inputs of the main process (ipcMain.once resolves
\* on any message of the channel), for a window with documents read from
\* files, edited and saved from the menu
NextAsk ==
    \/ clockUsed /\ ClockTick /\ UNCHANGED treeVars
    \/ \E p \in FilePaths :
           ~destroyed[Win] /\ fewDocs /\ ~BagIn(p, openOps) /\ OpenFile(p)
           /\ UNCHANGED treeVars
    \/ \E p \in FilePaths, success \in BOOLEAN :
           ~destroyed[Win] /\ ~clockUsed /\ fewDocs
           /\ OpenFileDone(p, success, "x") /\ UNCHANGED treeVars
    \/ \E c \in Contents : ~destroyed[Win] /\ Edit(c) /\ UNCHANGED treeVars
    \/ ~destroyed[Win] /\ SaveAllFiles /\ UNCHANGED treeVars
    \/ \E success \in BOOLEAN :
           ~destroyed[Win] /\ SaveAllWriteDone(success) /\ UNCHANGED treeVars
    \/ CloseRequested
    \/ RendererDispatch
    \/ QueryTimeout
    \/ QueryAnswered(hasDirty)
    \/ \E response \in 0..2 : DialogChoice(response)
    \/ \E timedOut \in BOOLEAN : SaveAllOver(timedOut)
    \/ \E ok \in BOOLEAN : StateSaved(ok)
    \/ CloseTick

SpecAsk == InitTabs /\ [][NextAsk]_vars

----------------------------------------------------------------------------
(* C36 *)

\* C36: when saveAllFiles ends, a write has been issued for every document
\* that was dirty with a path when it started and is still open, also when
\* another document was closed while one of its writes was in flight
C36_WriteIssued ==
    [][(saveAll.pc = "write" /\ saveAll'.pc = "idle") =>
          \A i \in 1..Len(tabs') :
              tabs'[i].uid \in saveAll.start =>
                  tabs'[i].uid \in saveAll.issued]_vars

----------------------------------------------------------------------------
(* C37 *)

\* a save of the document with this uid is in progress
saving(uid) == \E op \in BagToSet(saveOps) : op.uid = uid

\* C37: a new document whose saves have all ended cancelled or with a failed
\* write has the path it had before them, none: it has a path only when a
\* write to that path has succeeded
C37_PathAfterFailedSave ==
    \A i \in 1..Len(tabs) :
        (~saving(tabs[i].uid) /\ tabs[i].synced = NoFile) =>
            tabs[i].path = Null

----------------------------------------------------------------------------
(* C38 *)

\* C38: for a window that the close handler has destroyed, the main process
\* holds no watcher, no pending debounce timer and no allowed folder
C38_NothingLeft ==
    \A w \in Windows :
        destroyed[w] =>
            /\ ~watchers[w].on
            /\ fsWatchers[w] = 0
            /\ timersOf(w) = {}
            /\ allowedFolders[w] = Null

----------------------------------------------------------------------------
(* C39 *)

\* windows are created, and the page of the newest one restores or skips the
\* session and then runs tab and folder commands; the pages of all windows
\* are loaded from the same index.html and share its localStorage
NextSecond ==
    \/ CreateWindow /\ UNCHANGED treeVars
    \/ RestoreSession /\ UNCHANGED treeVars
    \/ RestoreFolderDone /\ UNCHANGED treeVars
    \/ \E success \in BOOLEAN, c \in Contents :
           RestoreReadDone(success, c) /\ UNCHANGED treeVars
    \/ restore.pc = "done" /\ ~clockUsed /\ fewDocs /\ CreateNewFile
           /\ UNCHANGED treeVars
    \/ clockUsed /\ ClockTick /\ UNCHANGED treeVars
    \/ \E id \in 1..MaxClock : restore.pc = "done" /\ CloseTab(id)
           /\ UNCHANGED treeVars
    \/ \E f \in OpenFolderInputs : restore.pc = "done" /\ OpenFolder(f)
           /\ UNCHANGED treeVars

SpecSecond == InitWindows /\ [][NextSecond]_vars

\* C39: the commands of a window that was created while another was open,
\* and so skipped the restoration, leave the session entry of the storage
\* as the first window wrote it
C39_SecondaryKeepsSession ==
    [][restore.isNewWindow = "true" => storage' = storage]_vars

----------------------------------------------------------------------------
(* C40 *)

\* a folder that is opened and watched, files created in it one call at a
\* time, and notifications of the watcher arriving at any moment
NextPending ==
    \/ appOpenFolder = Null /\ FilesOpenFolder(FolderA)
    \/ \E c \in BagToSet(calls) : GitDone(c)
    \/ \E c \in BagToSet(calls) : TreeDone(c)
    \/ \E c \in BagToSet(calls) : WatchReturned(c)
    \/ appOpenFolder # Null /\ openOps = EmptyBag
           /\ (\A c \in BagToSet(calls) : c.kind # "createFile")
           /\ CreateFile(appOpenFolder)
    \/ \E c \in BagToSet(calls) : CreateWriteReturned(c)
    \/ MainHandle
    \/ FolderChanged
    \/ SuppressTimerFire
    \/ TreeTick
    \/ \E success \in BOOLEAN :
           OpenFileDone(childPath(FolderA), success, "") /\ UNCHANGED treeVars

\* every awaited call settles: the main process answers the requests it has
\* received, and the renderer runs the continuation of a settled promise
FairPending ==
    /\ WF_vars(MainHandle)
    /\ WF_vars(\E c \in BagToSet(calls) : GitDone(c))
    /\ WF_vars(\E c \in BagToSet(calls) : TreeDone(c))
    /\ WF_vars(\E c \in BagToSet(calls) : WatchReturned(c))
    /\ WF_vars(\E c \in BagToSet(calls) : CreateWriteReturned(c))

SpecPending == InitFolder /\ [][NextPending]_vars /\ FairPending

\* a call is about to execute renderFileTree: its render begins after every
\* notification that has arrived
renderAhead == \E c \in BagToSet(calls) : c.pc = "git"

\* a notification was flagged during a render, and every renderFileTree in
\* progress began before it arrived
unseen ==
    /\ pendingRefresh
    /\ \A c \in BagToSet(calls) : c.pc \in {"tree", "children"} => c.stale

\* C40: a notification that is not suppressed and arrives during a render,
\* where refreshFileTree flags it, is followed by a render that starts
\* after it arrived
C40_NotLost == unseen ~> renderAhead

============================================================================
